---- MODULE Spec2Model ----
(***************************************************************************)
(* Model of the network protocol engine of mink-raft (src/src/network.rs):  *)
(* the varint codec, the frame layer with optional zlib compression, and    *)
(* the NetworkManager worker thread with its command/event channel.         *)
(***************************************************************************)
EXTENDS Integers, Sequences, FiniteSets, TLC

(***************************************************************************)
(* Integer helpers (u8 / u32 / i32 arithmetic as the Rust code performs it) *)
(***************************************************************************)
\* TLC integers are 32-bit: a u32 is held as the i32 with the same bit
\* pattern (two's complement), which is also what `as u32` / `as i32` do.
MinI32 == (0 - 2) * 1073741824

MaxI32 == 2147483647

RECURSIVE Pow2(_)
Pow2(n) == IF n = 0 THEN 1 ELSE 2 * Pow2(n - 1)

\* u32 `val >> 7` on the bit pattern
Shr7(v) == IF v >= 0 THEN v \div 128 ELSE (v \div 128) + 33554432

\* u32 `x << sh` for x < 128 and 0 <= sh < 32, truncated to 32 bits
ShlU32(x, sh) ==
    IF sh <= 24 THEN x * Pow2(sh)
    ELSE LET keep == 32 - sh
             xl   == x % Pow2(keep)
         IN  IF xl >= Pow2(keep - 1)
             THEN ((xl - Pow2(keep)) * 2) * Pow2(sh - 1)
             ELSE (xl * 2) * Pow2(sh - 1)

\* bitwise or of two bit patterns
RECURSIVE BitOr(_, _)
BitOr(a, b) ==
    IF a = 0 THEN b
    ELSE IF b = 0 THEN a
    ELSE IF a = 0 - 1 \/ b = 0 - 1 THEN 0 - 1
    ELSE (IF (a % 2 = 1) \/ (b % 2 = 1) THEN 1 ELSE 0) + 2 * BitOr(a \div 2, b \div 2)

\* the suffix of s that starts after its first n elements
Drop(s, n) == SubSeq(s, n + 1, Len(s))

\* the first n elements of s
Take(s, n) == SubSeq(s, 1, n)

(***************************************************************************)
(* Varint codec                                                             *)
(***************************************************************************)
PART == 127

\* write_varint that ends one value too late (val <= 128 instead of 127)
RECURSIVE write_varint_late(_)
write_varint_late(val) ==
    IF val >= 0 /\ val <= PART + 1
    THEN << val >>
    ELSE << (val % (PART + 1)) + 128 >> \o write_varint_late(Shr7(val))

\* write_varint: low 7 bits per byte, 0x80 on every byte but the last.
RECURSIVE write_varint(_)
write_varint(val) ==
    IF val >= 0 /\ val <= PART
    THEN << val >>
    ELSE << (val % (PART + 1)) + 128 >> \o write_varint(Shr7(val))

\* read_varint on a reader holding the bytes r.  Result:
\*   [ok |-> TRUE, val, used, over]  val is the i32 returned, used the number
\*        of bytes consumed, over tells that a shift amount of 32 or more was
\*        evaluated (size >= 5), which a debug build turns into a panic and a
\*        release build wraps (shift amount modulo 32);
\*   [ok |-> FALSE, ...]             read_exact failed (UnexpectedEof).
RECURSIVE ReadVarintLoop(_, _, _, _)
ReadVarintLoop(r, pos, size, val) ==
    LET byte == r[pos]
        sh   == (size * 7) % 32
        nv   == BitOr(val, ShlU32(byte % (PART + 1), sh))
    IN  IF byte < 128
        THEN [ok |-> TRUE, val |-> nv, used |-> pos, over |-> size >= 5]
        ELSE IF pos + 1 > Len(r)
             THEN [ok |-> FALSE, val |-> 0, used |-> pos, over |-> size >= 5]
             ELSE LET rest == ReadVarintLoop(r, pos + 1, size + 1, nv)
                  IN  [rest EXCEPT !.over = rest.over \/ size >= 5]

\* read_varint shifting each group by 8 bits instead of 7
RECURSIVE ReadVarintShift8Loop(_, _, _, _)
ReadVarintShift8Loop(r, pos, size, val) ==
    LET byte == r[pos]
        nv   == BitOr(val, ShlU32(byte % (PART + 1), (size * 8) % 32))
    IN  IF byte < 128
        THEN [ok |-> TRUE, val |-> nv, used |-> pos, over |-> size >= 5]
        ELSE IF pos + 1 > Len(r)
             THEN [ok |-> FALSE, val |-> 0, used |-> pos, over |-> size >= 5]
             ELSE ReadVarintShift8Loop(r, pos + 1, size + 1, nv)

read_varint_shift8(r) ==
    IF Len(r) = 0
    THEN [ok |-> FALSE, val |-> 0, used |-> 0, over |-> FALSE]
    ELSE ReadVarintShift8Loop(r, 1, 0, 0)

read_varint(r) ==
    IF Len(r) = 0
    THEN [ok |-> FALSE, val |-> 0, used |-> 0, over |-> FALSE]
    ELSE ReadVarintLoop(r, 1, 0, 0)

(***************************************************************************)
(* zlib at compression level 0 (miniz_oxide): a two-byte header, stored     *)
(* deflate blocks, and the big-endian Adler-32 of the data.                 *)
(***************************************************************************)
AdlerMod == 65521

RECURSIVE AdlerLoop(_, _, _, _)
AdlerLoop(data, i, a, b) ==
    IF i > Len(data) THEN << b \div 256, b % 256, a \div 256, a % 256 >>
    ELSE LET a2 == (a + data[i]) % AdlerMod
         IN  AdlerLoop(data, i + 1, a2, (b + a2) % AdlerMod)

\* the four big-endian bytes of the Adler-32 checksum of data
Adler32(data) == AdlerLoop(data, 1, 1, 0)

\* a level-0 compressor that writes LEN twice instead of LEN and ~LEN
compress_to_vec_zlib_nlen(data) ==
    LET n == Len(data)
    IN  << 120, 1 >> \o << 1, n % 256, n \div 256, n % 256, n \div 256 >>
        \o data \o Adler32(data)

\* compress_to_vec_zlib(packet, 0): header 78 01, one final stored block
\* (01, LEN, ~LEN little-endian, the data), Adler-32.
compress_to_vec_zlib(data) ==
    LET n == Len(data)
    IN  << 120, 1 >> \o << 1, n % 256, n \div 256, 255 - (n % 256), 255 - (n \div 256) >>
        \o data \o Adler32(data)

\* the stored blocks starting at position pos of z: [ok, data, next]
RECURSIVE InflateBlocks(_, _)
InflateBlocks(z, pos) ==
    IF pos + 4 > Len(z) THEN [ok |-> FALSE, data |-> << >>, next |-> pos]
    ELSE LET hdr  == z[pos]
             len  == z[pos + 1] + 256 * z[pos + 2]
             nlen == z[pos + 3] + 256 * z[pos + 4]
         IN  IF (hdr \div 2) % 4 # 0 \/ len + nlen # 65535 \/ pos + 4 + len > Len(z)
             THEN [ok |-> FALSE, data |-> << >>, next |-> pos]
             ELSE LET body == SubSeq(z, pos + 5, pos + 4 + len)
                  IN  IF hdr % 2 = 1
                      THEN [ok |-> TRUE, data |-> body, next |-> pos + 5 + len]
                      ELSE LET more == InflateBlocks(z, pos + 5 + len)
                           IN  [more EXCEPT !.data = body \o more.data]

\* the end of the stream after the stored blocks b: the Adler-32 trailer
InflateFinish(z, b) ==
    IF b.ok /\ b.next + 3 <= Len(z)
       /\ SubSeq(z, b.next, b.next + 3) = Adler32(b.data)
    THEN [ok |-> TRUE, data |-> b.data]
    ELSE [ok |-> FALSE, data |-> << >>]

\* decompress_to_vec_zlib: [ok |-> TRUE, data] or [ok |-> FALSE]
decompress_to_vec_zlib(z) ==
    IF Len(z) < 2 \/ z[1] % 16 # 8 \/ z[1] \div 16 > 7
       \/ (z[1] * 256 + z[2]) % 31 # 0 \/ (z[2] \div 32) % 2 = 1
    THEN [ok |-> FALSE, data |-> << >>]
    ELSE InflateFinish(z, InflateBlocks(z, 3))

(***************************************************************************)
(* Frame layer: what send_packet writes and how next_packet parses a frame  *)
(***************************************************************************)
\* the deflated layout: packet length, data length, compressed bytes
DeflatedFrame(data_length, compressed) ==
    write_varint(Len(data_length) + Len(compressed)) \o data_length \o compressed

\* send_packet whose uncompressed mode counts one byte too many
SendPacketBytesPlainOff(compress, threshold, packet) ==
    IF compress
    THEN IF Len(packet) >= threshold
         THEN DeflatedFrame(write_varint(Len(packet)), compress_to_vec_zlib(packet))
         ELSE write_varint(Len(packet) + 1) \o << 0 >> \o packet
    ELSE write_varint(Len(packet) + 1) \o packet

\* send_packet whose below-threshold mode does not count the marker byte
SendPacketBytesMarkerOff(compress, threshold, packet) ==
    IF compress
    THEN IF Len(packet) >= threshold
         THEN DeflatedFrame(write_varint(Len(packet)), compress_to_vec_zlib(packet))
         ELSE write_varint(Len(packet)) \o << 0 >> \o packet
    ELSE write_varint(Len(packet)) \o packet

\* send_packet that deflates only above the threshold (`>` for `>=`)
SendPacketBytesAboveOnly(compress, threshold, packet) ==
    IF compress
    THEN IF Len(packet) > threshold
         THEN DeflatedFrame(write_varint(Len(packet)), compress_to_vec_zlib(packet))
         ELSE write_varint(Len(packet) + 1) \o << 0 >> \o packet
    ELSE write_varint(Len(packet)) \o packet

\* The bytes send_packet writes for `packet` (packet id + body, no length)
\* under the compression state (compress, threshold).
SendPacketBytes(compress, threshold, packet) ==
    IF compress
    THEN IF Len(packet) >= threshold
         THEN DeflatedFrame(write_varint(Len(packet)), compress_to_vec_zlib(packet))
         ELSE write_varint(Len(packet) + 1) \o << 0 >> \o packet
    ELSE write_varint(Len(packet)) \o packet

\* The part of next_packet after the frame body buf has been read: the
\* packet id and contents handed to RawPacketType::create.  tag is
\*   "ok"    id and contents were extracted (inflated tells whether
\*           decompress_to_vec_zlib was called),
\*   "io"    a read_varint on the buffer failed, next_packet returns Err,
\*   "todo"  decompress_to_vec_zlib failed, the todo!() panics.
ParseResult(tag, id, contents, inflated, over) ==
    [tag |-> tag, id |-> id, contents |-> contents, inflated |-> inflated, over |-> over]

\* the packet id `id` read_varint returned on bytes, and what follows it
IdAndContents(id, bytes, inflated, over0) ==
    IF id.ok
    THEN ParseResult("ok", id.val, Drop(bytes, id.used), inflated, over0 \/ id.over)
    ELSE ParseResult("io", 0, << >>, inflated, over0 \/ id.over)

ParseIdAndContents(bytes, inflated, over0) ==
    IdAndContents(read_varint(bytes), bytes, inflated, over0)

\* the result z of decompress_to_vec_zlib
ParseInflated(z, over) ==
    IF z.ok
    THEN ParseIdAndContents(z.data, TRUE, over)
    ELSE ParseResult("todo", 0, << >>, TRUE, over)

\* the compressed layout, data_len being the data-length varint read on buf
ParseCompressed(data_len, buf) ==
    IF ~data_len.ok
    THEN ParseResult("io", 0, << >>, FALSE, data_len.over)
    ELSE IF data_len.val = 0
         THEN ParseIdAndContents(Drop(buf, data_len.used), FALSE, data_len.over)
         ELSE ParseInflated(decompress_to_vec_zlib(Drop(buf, data_len.used)), data_len.over)

ParseFrame(compress, buf) ==
    IF compress
    THEN ParseCompressed(read_varint(buf), buf)
    ELSE ParseIdAndContents(buf, FALSE, FALSE)

\* The first frame on a byte stream: the length prefix and the body that
\* read_exact fills.  kind is
\*   "frame"   a complete frame is available: len, buf, and rest of stream,
\*   "short"   the stream holds fewer bytes than the frame needs (the
\*             blocking reads wait, or fail with UnexpectedEof when the peer
\*             has closed),
\*   "neg"     the length prefix decodes to a negative i32.
SplitAt(len, stream) ==
    IF ~len.ok
    THEN [kind |-> "short", len |-> 0, buf |-> << >>, rest |-> << >>, over |-> len.over]
    ELSE IF len.val < 0
         THEN [kind |-> "neg", len |-> len.val, buf |-> << >>,
               rest |-> Drop(stream, len.used), over |-> len.over]
         ELSE IF len.used + len.val > Len(stream)
              THEN [kind |-> "short", len |-> len.val, buf |-> << >>,
                    rest |-> << >>, over |-> len.over]
              ELSE [kind |-> "frame", len |-> len.val,
                    buf |-> SubSeq(stream, len.used + 1, len.used + len.val),
                    rest |-> Drop(stream, len.used + len.val), over |-> len.over]

SplitFrame(stream) == SplitAt(read_varint(stream), stream)

(***************************************************************************)
(* Packet codec (mcproto_rs, protocol 753): a packet is a record            *)
(* [kind, arg]; encode writes the packet id and the body, and               *)
(* RawPacket753::create + deserialize select the packet by (id, state).     *)
(***************************************************************************)
PROTOCOL == 753

\* arg is the sequence of the packet's field values (bytes of a string or of
\* a fixed-width integer, or the one value of a VarInt field)
Packet(kind, arg) == [kind |-> kind, arg |-> arg]

\* a length-prefixed byte string (String, Chat and byte-array fields)
StrBody(str) == write_varint(Len(str)) \o str

\* [ok, val, rest]: the string of the length n read at the head of bytes
StrAt(n, bytes) ==
    IF n.ok /\ n.val >= 0 /\ n.used + n.val <= Len(bytes)
    THEN [ok |-> TRUE, val |-> SubSeq(bytes, n.used + 1, n.used + n.val),
          rest |-> Drop(bytes, n.used + n.val)]
    ELSE [ok |-> FALSE, val |-> << >>, rest |-> << >>]

\* [ok, val, rest]: the length-prefixed string at the head of bytes
ParseStr(bytes) == StrAt(read_varint(bytes), bytes)

Zeros(n) == [i \in 1..n |-> 0]

\* the big-endian bytes of a small non-negative i64
I64(n) == Zeros(7) \o << n >>

\* the address string the handshake carries (stream.local_addr())
LocalAddr == << 49, 50, 55, 46, 48, 46, 48, 46, 49 >>

\* "Player Disconnected"
PlayerDisconnectedText ==
    << 80, 108, 97, 121, 101, 114, 32, 68, 105, 115, 99, 111, 110, 110, 101, 99, 116, 101, 100 >>

\* packet ids of protocol 753, per state and direction
PacketId(kind) ==
    CASE kind = "Handshake" -> 0
      [] kind = "StatusRequest" -> 0
      [] kind = "StatusPing" -> 1
      [] kind = "StatusResponse" -> 0
      [] kind = "StatusPong" -> 1
      [] kind = "LoginStart" -> 0
      [] kind = "LoginDisconnect" -> 0
      [] kind = "LoginEncryptionRequest" -> 1
      [] kind = "LoginSuccess" -> 2
      [] kind = "LoginSetCompression" -> 3
      [] kind = "LoginPluginRequest" -> 4
      [] kind = "PlayServerDifficulty" -> 13
      [] kind = "PlayClientKeepAlive" -> 16
      [] kind = "PlayDisconnect" -> 25
      [] kind = "PlayServerKeepAlive" -> 31

\* mc_serialize_body
Body(p) ==
    CASE p.kind = "Handshake" ->
             write_varint(p.arg.version) \o StrBody(p.arg.server_address)
             \o << p.arg.server_port \div 256, p.arg.server_port % 256 >>
             \o write_varint(p.arg.next_state)
      [] p.kind \in {"StatusRequest"} -> << >>
      [] p.kind \in {"StatusPing", "StatusPong", "PlayServerKeepAlive", "PlayClientKeepAlive"} -> p.arg
      [] p.kind \in {"StatusResponse", "LoginStart", "LoginDisconnect", "PlayDisconnect"} -> StrBody(p.arg)
      [] p.kind = "LoginEncryptionRequest" -> StrBody(<< >>) \o StrBody(p.arg) \o StrBody(p.arg)
      [] p.kind = "LoginSuccess" -> Zeros(16) \o StrBody(p.arg)
      [] p.kind \in {"LoginSetCompression", "LoginPluginRequest"} -> write_varint(p.arg[1])
      [] p.kind = "PlayServerDifficulty" -> p.arg

\* encode: the packet id as a varint, then the body
encode(p) == write_varint(PacketId(p.kind)) \o Body(p)

DecodeErr == Packet("Err", << >>)

\* body deserializers
StrPacket(kind, f) == IF f.ok THEN Packet(kind, f.val) ELSE DecodeErr

DeStr(kind, contents) == StrPacket(kind, ParseStr(contents))

VarintPacket(kind, v) == IF v.ok THEN Packet(kind, << v.val >>) ELSE DecodeErr

DeVarint(kind, contents) == VarintPacket(kind, read_varint(contents))

DeI64(kind, contents) ==
    IF Len(contents) >= 8 THEN Packet(kind, Take(contents, 8)) ELSE DecodeErr

\* LoginEncryptionRequest: server id, public key, verify token
EncryptionToken(key, c) ==
    IF c.ok THEN Packet("LoginEncryptionRequest", key) ELSE DecodeErr

EncryptionKey(b) ==
    IF b.ok THEN EncryptionToken(b.val, ParseStr(b.rest)) ELSE DecodeErr

EncryptionServerId(a) ==
    IF a.ok THEN EncryptionKey(ParseStr(a.rest)) ELSE DecodeErr

\* RawPacketType::create(Id {id, state, ClientBound}, contents) followed by
\* deserialize(): the packet, or DecodeErr (unknown id for the state, or a
\* body that does not parse).
Deserialize(state, id, contents) ==
    CASE state = "Status" /\ id = 0 -> DeStr("StatusResponse", contents)
      [] state = "Status" /\ id = 1 -> DeI64("StatusPong", contents)
      [] state = "Login" /\ id = 0 -> DeStr("LoginDisconnect", contents)
      [] state = "Login" /\ id = 1 -> EncryptionServerId(ParseStr(contents))
      [] state = "Login" /\ id = 2 ->
             IF Len(contents) >= 16 THEN DeStr("LoginSuccess", Drop(contents, 16)) ELSE DecodeErr
      [] state = "Login" /\ id = 3 -> DeVarint("LoginSetCompression", contents)
      [] state = "Login" /\ id = 4 -> DeVarint("LoginPluginRequest", contents)
      [] state = "Play" /\ id = 13 ->
             IF Len(contents) >= 2 /\ contents[1] <= 3 /\ contents[2] <= 1
             THEN Packet("PlayServerDifficulty", Take(contents, 2)) ELSE DecodeErr
      [] state = "Play" /\ id = 25 -> DeStr("PlayDisconnect", contents)
      [] state = "Play" /\ id = 31 -> DeI64("PlayServerKeepAlive", contents)
      [] OTHER -> DecodeErr

(***************************************************************************)
(* next_packet on the inbound byte stream                                   *)
(***************************************************************************)
\* What one call of next_packet does with the bytes `stream` still unread,
\* the peer's side of the connection being peer ("open", "closed" after a
\* FIN, "reset" after an RST).  kind is
\*   "wouldblock"  peek fails with WouldBlock: Err, nothing consumed
\*   "dead"        peek returns Ok(0): panic
\*   "io"          Err(e) with another kind (reset, UnexpectedEof)
\*   "blocked"     the blocking reads wait for bytes the peer has not sent
\*   "alloc"       the length prefix is negative: vec![0u8; len as usize]
\*   "todo"        decompress_to_vec_zlib failed: todo!() panics
\*   "decode"      Ok(Err(e)): the packet did not deserialize
\*   "packet"      Ok(Ok(packet))
Outcome(kind, packet, rest, inflated) ==
    [kind |-> kind, packet |-> packet, rest |-> rest, inflated |-> inflated]

\* Ok(..) of next_packet: the deserialized packet p or its error
OutcomeOfPacket(p, rest, inflated) ==
    Outcome(IF p.kind = "Err" THEN "decode" ELSE "packet", p, rest, inflated)

\* an inflate failure handed back as a packet error
OutcomeOfParseTodoAsDecode(pr, rest, state) ==
    CASE pr.tag = "io" -> Outcome("io", DecodeErr, rest, FALSE)
      [] pr.tag = "todo" -> Outcome("decode", DecodeErr, rest, TRUE)
      [] pr.tag = "ok" ->
             OutcomeOfPacket(Deserialize(state, pr.id, pr.contents), rest, pr.inflated)

\* the frame body parsed into pr
OutcomeOfParse(pr, rest, state) ==
    CASE pr.tag = "io" -> Outcome("io", DecodeErr, rest, FALSE)
      [] pr.tag = "todo" -> Outcome("todo", DecodeErr, rest, TRUE)
      [] pr.tag = "ok" ->
             OutcomeOfPacket(Deserialize(state, pr.id, pr.contents), rest, pr.inflated)

\* the length prefix and body sp taken from the stream
OutcomeOfSplit(sp, peer, compress, state) ==
    CASE sp.kind = "short" ->
             Outcome(IF peer = "closed" THEN "io" ELSE "blocked", DecodeErr, << >>, FALSE)
      [] sp.kind = "neg" -> Outcome("alloc", DecodeErr, sp.rest, FALSE)
      [] sp.kind = "frame" -> OutcomeOfParse(ParseFrame(compress, sp.buf), sp.rest, state)

NextPacketOutcome(stream, peer, compress, state) ==
    IF peer = "reset" THEN Outcome("io", DecodeErr, << >>, FALSE)
    ELSE IF stream = << >>
    THEN Outcome(IF peer = "closed" THEN "dead" ELSE "wouldblock", DecodeErr, << >>, FALSE)
    ELSE OutcomeOfSplit(SplitFrame(stream), peer, compress, state)

(***************************************************************************)
(* State                                                                    *)
(***************************************************************************)
VARIABLES
    pc,           \* where the worker thread is: "spawned", "drain", "login",
                  \* "status", "read", "exited", "panicked"
    close,        \* NetworkManager.close
    compress,     \* NetworkManager.compress
    threshold,    \* NetworkManager.threshold
    state,        \* NetworkManager.state (protocol::State)
    cmdq,         \* command channel, application -> worker
    evq,          \* event channel, worker -> application
    appAlive,     \* the application still holds its NetworkChannel
    appPanicked,  \* the application thread has panicked
    connection,   \* Server.connection, the session's ConnectionState
    appSent,      \* history: the commands the application has enqueued
    sock,         \* bytes the server has written and the worker has not read
    mode,         \* the TcpStream of the worker: "none" before it exists,
                  \* "nonblocking", "blocking", "dropped" with the thread
    peer,         \* the server's end of the connection: "open", "closed", "reset"
    srv,          \* the server: framing state and number of frames written
    wire,         \* history: the frames the worker has written to the stream
    sent,         \* history: the events the worker has sent on the channel
    last,         \* history: the last step of the worker thread
    log,          \* history: the commands handled and frames read, in order
    varintTest,   \* codec harness: one write_varint / read_varint round
    frameTest,    \* codec harness: one send_packet / next_packet round
    input         \* the Keyboard and the Mouse of the window context

workerVars == << pc, close, compress, threshold, state, cmdq, evq, appAlive, appPanicked, connection, appSent,
                 sock, mode, peer, srv, wire, sent, last, log >>

codecVars == << varintTest, frameTest, input >>

vars == << pc, close, compress, threshold, state, cmdq, evq, appAlive, appPanicked, connection, appSent,
           sock, mode, peer, srv, wire, sent, last, log,
           varintTest, frameTest, input >>

(***************************************************************************)
(* Bounds of the codec harnesses                                            *)
(***************************************************************************)
\* values within VarintNear of 0, of a power of two and of its negation
VarintNear == 1

\* longest payload (bytes after the packet id) of a harness frame
MaxPayloadLen == 2

\* largest small threshold tried by the frame harness
MaxThreshold == 3

VarintInputs ==
    { s * Pow2(k) + d : s \in {-1, 1}, k \in 0..30, d \in (0 - VarintNear)..VarintNear }
    \cup { MinI32 + d : d \in 0..VarintNear } \cup { MaxI32 - d : d \in 0..VarintNear }

ByteSamples == {0, 1, 127, 128, 255}

RECURSIVE SeqsUpTo(_, _)
SeqsUpTo(S, n) ==
    IF n = 0 THEN { << >> }
    ELSE LET shorter == SeqsUpTo(S, n - 1)
         IN  shorter \cup { Append(q, x) : q \in { r \in shorter : Len(r) = n - 1 }, x \in S }

Payloads == SeqsUpTo(ByteSamples, MaxPayloadLen)

\* packet ids of one to five varint bytes
PacketIdSamples == {0, 3, 31, 127, 128, 16384, -1}

\* bytes that follow the written varint on the reader
Trailers == { << >>, << 0 >>, << 255, 1 >> }

\* longest run of bytes with the continuation bit on a reader
MaxRun == 6

ContinuationRun(n) == [i \in 1..n |-> 255]

\* readers that hold a run of continuation bytes and then end, or go on
\* with a byte that ends a varint
VarintStreams == { ContinuationRun(n) \o t : n \in 0..MaxRun, t \in { << >>, << 1 >> } }

(***************************************************************************)
(* Initial state of the worker and its environment: the thread has been     *)
(* spawned by NetworkManager::connect, and the fields are the ones the      *)
(* NetworkManager is constructed with.                                      *)
(***************************************************************************)
Step(op, kind, arg) == [op |-> op, kind |-> kind, arg |-> arg]

\* server.rs, enum ConnectionState
Connected == [tag |-> "Connected", reason |-> << >>]

ClientDisconnected == [tag |-> "ClientDisconnected", reason |-> << >>]

ServerDisconnected(reason) == [tag |-> "ServerDisconnected", reason |-> reason]

WorkerInit ==
    /\ pc = "spawned"
    /\ close = FALSE
    /\ compress = FALSE
    /\ threshold = 0
    /\ state = "Status"
    /\ cmdq = << >>
    /\ evq = << >>
    /\ appAlive = TRUE
    /\ appPanicked = FALSE
    /\ connection = Connected
    /\ appSent = << >>
    /\ sock = << >>
    /\ mode = "none"
    /\ peer = "open"
    /\ srv = [compress |-> FALSE, threshold |-> 0, frames |-> 0, play |-> FALSE]
    /\ wire = << >>
    /\ sent = << >>
    /\ last = Step("init", "", << >>)
    /\ log = << >>

(***************************************************************************)
(* Varint harness: write_varint(val) into a buffer, then read_varint from   *)
(* a reader holding that buffer followed by further bytes.                  *)
(***************************************************************************)
VarintIdle == [stage |-> "idle", val |-> 0, bytes |-> << >>, trailer |-> << >>,
               read |-> [ok |-> FALSE, val |-> 0, used |-> 0, over |-> FALSE]]

FrameIdle == [stage |-> "idle", id |-> 0, payload |-> << >>, compress |-> FALSE,
              threshold |-> 0, wire |-> << >>, split |-> SplitFrame(<< >>),
              out |-> ParseResult("io", 0, << >>, FALSE, FALSE)]

(***************************************************************************)
(* Window input (wgpu-app, io/keyboard.rs and io/mouse.rs): the per-frame   *)
(* edges of keys and mouse buttons.                                         *)
(***************************************************************************)
\* the key codes the harness delivers events for
KeyCodes == {"KeyW", "Space"}

\* highest mouse button index the harness delivers events for
MaxButton == 1

Buttons == 0..MaxButton

\* Keyboard::new() and Mouse::new().  keys is the HashMap<KeyCode, bool>
\* ("absent", "true" or "false" per key), key_frame the keys that this_frame maps
\* to true; pressed and this_frame are the Mouse arrays.  The four sets are
\* history: the press and release events delivered since the last
\* next_frame().
InputNew ==
    [keys |-> [k \in KeyCodes |-> "absent"],
     key_frame |-> { },
     pressed |-> [b \in Buttons |-> FALSE],
     this_frame |-> [b \in Buttons |-> FALSE],
     keyPresses |-> { }, keyReleases |-> { },
     buttonPresses |-> { }, buttonReleases |-> { }]

\* Keyboard::press and Keyboard::release
press(in, key) ==
    [in EXCEPT !.keys[key] = "true", !.key_frame = @ \cup {key},
               !.keyPresses = @ \cup {key}]

release(in, key) ==
    [in EXCEPT !.keys[key] = "false", !.key_frame = @ \cup {key},
               !.keyReleases = @ \cup {key}]

\* Mouse::press_button and Mouse::release_button
press_button(in, button) ==
    [in EXCEPT !.this_frame[button] = TRUE, !.pressed[button] = TRUE,
               !.buttonPresses = @ \cup {button}]

release_button(in, button) ==
    [in EXCEPT !.this_frame[button] = TRUE, !.pressed[button] = FALSE,
               !.buttonReleases = @ \cup {button}]

\* Mouse::next_frame and Keyboard::next_frame, called together by the
\* application loop
next_frame(in) ==
    [in EXCEPT !.this_frame = [b \in Buttons |-> FALSE], !.key_frame = { },
               !.keyPresses = { }, !.keyReleases = { },
               !.buttonPresses = { }, !.buttonReleases = { }]

\* Keyboard::pressed_this_frame, released_this_frame, is_pressed
KeyPressedThisFrame(in, key) == in.keys[key] = "true" /\ key \in in.key_frame

KeyReleasedThisFrame(in, key) == in.keys[key] # "true" /\ key \in in.key_frame

KeyIsPressed(in, key) == in.keys[key] = "true"

\* Mouse::pressed_this_frame, released_this_frame, is_pressed
pressed_this_frame(in, button) == in.pressed[button] /\ in.this_frame[button]

released_this_frame(in, button) == ~in.pressed[button] /\ in.this_frame[button]

is_pressed(in, button) == in.pressed[button]

InitVarint ==
    /\ \/ \E v \in VarintInputs, t \in Trailers :
             varintTest = [VarintIdle EXCEPT !.stage = "input", !.val = v, !.trailer = t]
       \/ \E r \in VarintStreams :
             varintTest = [VarintIdle EXCEPT !.stage = "stream", !.bytes = r]
    /\ frameTest = FrameIdle
    /\ input = InputNew
    /\ WorkerInit

VarintWrite ==
    /\ varintTest.stage = "input"
    /\ varintTest' = [varintTest EXCEPT !.stage = "written",
                                        !.bytes = write_varint(varintTest.val)]
    /\ UNCHANGED << frameTest, input, workerVars >>

VarintRead ==
    /\ varintTest.stage = "written"
    /\ varintTest' = [varintTest EXCEPT !.stage = "read",
                          !.read = read_varint(varintTest.bytes \o varintTest.trailer)]
    /\ UNCHANGED << frameTest, input, workerVars >>

\* read_varint on a reader whose bytes no write_varint produced
VarintReadStream ==
    /\ varintTest.stage = "stream"
    /\ varintTest' = [varintTest EXCEPT !.stage = "scanned",
                                        !.read = read_varint(varintTest.bytes)]
    /\ UNCHANGED << frameTest, input, workerVars >>

NextVarint == VarintWrite \/ VarintRead \/ VarintReadStream

SpecVarint == InitVarint /\ [][NextVarint]_vars

(***************************************************************************)
(* Frame harness: send_packet(id + payload) under a compression state, then *)
(* next_packet under the same state on the bytes written.                   *)
(***************************************************************************)
\* compression states the worker can be in: compress is only ever set
\* together with a threshold >= 1
CompressionStates ==
    { << FALSE, 0 >> } \cup { << c, t >> : c \in BOOLEAN, t \in (1..MaxThreshold) \cup {256} }

FramePacket == write_varint(frameTest.id) \o frameTest.payload

InitFrame ==
    /\ WorkerInit
    /\ varintTest = VarintIdle
    /\ input = InputNew
    /\ \E i \in PacketIdSamples, p \in Payloads, cs \in CompressionStates :
           frameTest = [FrameIdle EXCEPT !.stage = "input", !.id = i, !.payload = p,
                                         !.compress = cs[1], !.threshold = cs[2]]

FrameSend ==
    /\ frameTest.stage = "input"
    /\ frameTest' = [frameTest EXCEPT !.stage = "sent",
                        !.wire = SendPacketBytes(frameTest.compress, frameTest.threshold, FramePacket)]
    /\ UNCHANGED << varintTest, input, workerVars >>

FrameReceive ==
    /\ frameTest.stage = "sent"
    /\ LET sp == SplitFrame(frameTest.wire)
       IN  frameTest' = [frameTest EXCEPT !.stage = "received", !.split = sp,
                            !.out = IF sp.kind = "frame"
                                    THEN ParseFrame(frameTest.compress, sp.buf)
                                    ELSE ParseResult("io", 0, << >>, FALSE, sp.over)]
    /\ UNCHANGED << varintTest, input, workerVars >>

NextFrame == FrameSend \/ FrameReceive

SpecFrame == InitFrame /\ [][NextFrame]_vars

(***************************************************************************)
(* Input harness: window events delivered to the Keyboard and the Mouse,    *)
(* and the frame boundary of the application loop.                          *)
(***************************************************************************)
InitInput ==
    /\ WorkerInit
    /\ varintTest = VarintIdle
    /\ frameTest = FrameIdle
    /\ input = InputNew

\* Keyboard::handle_event on a KeyboardInput event
KeyboardInput ==
    /\ \E k \in KeyCodes, pressed \in BOOLEAN :
          input' = IF pressed THEN press(input, k) ELSE release(input, k)
    /\ UNCHANGED << varintTest, frameTest, workerVars >>

\* Mouse::handle_event on a MouseInput event
MouseInput ==
    /\ \E b \in Buttons, pressed \in BOOLEAN :
          input' = IF pressed THEN press_button(input, b) ELSE release_button(input, b)
    /\ UNCHANGED << varintTest, frameTest, workerVars >>

\* the frame boundary
NextFrameStep ==
    /\ input' = next_frame(input)
    /\ UNCHANGED << varintTest, frameTest, workerVars >>

NextInput == KeyboardInput \/ MouseInput \/ NextFrameStep

SpecInput == InitInput /\ [][NextInput]_vars

(***************************************************************************)
(* Bounds and inputs of the worker model                                    *)
(***************************************************************************)
\* commands the application enqueues over the life of a connection
MaxCmds == 2

\* frames the server writes over the life of a connection
MaxServerFrames == 2

PlayerName == << 83, 116, 101, 118, 101 >>

ReasonBanned == << 98, 97, 110, 110, 101, 100 >>

StatusJson == << 123, 125 >>

KeepAliveId == I64(42)

\* thresholds the server announces with LoginSetCompression
ThresholdArgs == {0 - 1, 0, 8, 256}

\* a serverbound chat packet the application hands to SendPacket
ChatBytes == << 3, 1, 104 >>

Cmd(cmd, arg) == [cmd |-> cmd, arg |-> arg]

AppCommands ==
    { Cmd("Login", PlayerName), Cmd("Disconnect", << >>), Cmd("SendPacket", ChatBytes),
      Cmd("RequestStatus", << >>), Cmd("Spawn", << >>) }

\* the clientbound packets of each protocol phase the server sends
ServerPackets(phase) ==
    CASE phase = "Status" ->
             { Packet("StatusResponse", StatusJson), Packet("StatusPong", I64(0)) }
      [] phase = "Login" ->
             { Packet("LoginDisconnect", ReasonBanned), Packet("LoginEncryptionRequest", << 1 >>),
               Packet("LoginSuccess", PlayerName), Packet("LoginPluginRequest", << 0 >>) }
             \cup { Packet("LoginSetCompression", << t >>) : t \in ThresholdArgs }
      [] phase = "Play" ->
             { Packet("PlayServerKeepAlive", KeepAliveId), Packet("PlayDisconnect", ReasonBanned),
               Packet("PlayServerDifficulty", << 1, 0 >>) }
      [] OTHER -> { }

\* frames a server writes over a session that negotiates compression
MaxSessionFrames == 4

\* thresholds such a server announces
SessionThresholds == {0, 2, 8, 512}

\* the packets of a server that negotiates compression, accepts the login
\* and plays
SessionPackets(phase) ==
    CASE phase = "Status" -> { Packet("StatusResponse", StatusJson) }
      [] phase = "Login" ->
             { Packet("LoginSuccess", PlayerName) }
             \cup { Packet("LoginSetCompression", << t >>) : t \in SessionThresholds }
      [] phase = "Play" ->
             { Packet("PlayServerKeepAlive", KeepAliveId), Packet("PlayServerDifficulty", << 1, 0 >>) }
      [] OTHER -> { }

\* byte strings the server writes that are not a framed packet
RawFrames == { << 0 >>, << 1, 127 >>, << 2, 0 >>, << 255, 255, 255, 255, 15 >> }

Event(ev, kind, arg) == [ev |-> ev, kind |-> kind, arg |-> arg]

ReceivePacket(p) == Event("ReceivePacket", p.kind, p.arg)

(***************************************************************************)
(* The worker thread                                                        *)
(***************************************************************************)
Alive == pc \in {"drain", "login", "status", "read"}

\* Results of the writes of one send_packet call: they succeed on an open
\* connection and fail after a reset; once the peer has closed its end a
\* write may still be accepted or fail (the reset it provokes may have
\* arrived or not).
WriteOutcomes ==
    IF peer = "open" THEN {TRUE} ELSE IF peer = "reset" THEN {FALSE} ELSE BOOLEAN


\* the frame send_packet writes for a packet under the current compression
Framed(p) == SendPacketBytes(compress, threshold, encode(p))

HandshakeSpec(version, port, next_state) ==
    Packet("Handshake", [version |-> version, server_address |-> LocalAddr,
                         server_port |-> port, next_state |-> next_state])

DisconnectFrame == Framed(Packet("PlayDisconnect", PlayerDisconnectedText))

\* the histories after a step: handled commands and read frames are logged
Record(l) ==
    /\ last' = l
    /\ log' = IF l.op \in {"command", "login_packet", "status_packet", "play_packet"}
              /\ l.kind # "wouldblock"
              THEN Append(log, l) ELSE log

\* the worker's own variables after a step
W0(pc2, close2, compress2, threshold2, state2, frames, events, l) ==
    /\ pc' = pc2
    /\ close' = close2
    /\ compress' = compress2
    /\ threshold' = threshold2
    /\ state' = state2
    /\ wire' = wire \o frames
    /\ evq' = evq \o events
    /\ sent' = sent \o events
    /\ Record(l)

\* The stream after a step that leaves the thread at pc2: set_nonblocking(true)
\* is the last call on it of connect's thread body, of send_packet and of a
\* next_packet whose reads succeeded; a thread that ends drops it.
ModeAfter(pc2) ==
    IF pc2 \in {"exited", "panicked"}
    THEN (IF mode = "none" THEN "none" ELSE "dropped")
    ELSE "nonblocking"

\* the worker's own variables and its stream after a step
W(pc2, close2, compress2, threshold2, state2, frames, events, l) ==
    /\ W0(pc2, close2, compress2, threshold2, state2, frames, events, l)
    /\ mode' = ModeAfter(pc2)

\* a panic unwinds the thread
Panic(l) ==
    /\ pc' = "panicked"
    /\ mode' = ModeAfter("panicked")
    /\ Record(l)
    /\ UNCHANGED << close, compress, threshold, state, wire, evq, sent >>

\* send_packet(..).expect(..) and what follows: okBranch when the writes
\* succeed, a panic when they fail
Expect(okBranch, l) == \E ok \in WriteOutcomes : IF ok THEN okBranch ELSE Panic(l)

\* send_message after channel.send failed: close is set, then
\* send_packet(PlayDisconnect).expect(..)
SendDisconnectOnLoss(pc2, state2, l) ==
    \E ok \in WriteOutcomes :
        IF ok
        THEN W(pc2, TRUE, compress, threshold, state2, << DisconnectFrame >>, << >>, l)
        ELSE W("panicked", TRUE, compress, threshold, state2, << >>, << >>, l)

\* send_message followed by a handler that forgets to set close
SendMessageThenNoClose(comm, pc2, closeAfter, state2, l) ==
    IF appAlive
    THEN W(pc2, close, compress, threshold, state2, << >>, << comm >>, l)
    ELSE SendDisconnectOnLoss(pc2, state2, l)

\* send_message that sends the event twice
SendMessageThenTwice(comm, pc2, closeAfter, state2, l) ==
    IF appAlive
    THEN W(pc2, closeAfter, compress, threshold, state2, << >>, << comm, comm >>, l)
    ELSE SendDisconnectOnLoss(pc2, state2, l)

\* send_message(comm), followed by the rest of the handler, which leaves
\* close = closeAfter, state = state2 and the thread at pc2
SendMessageThen(comm, pc2, closeAfter, state2, l) ==
    IF appAlive
    THEN W(pc2, closeAfter, compress, threshold, state2, << >>, << comm >>, l)
    ELSE SendDisconnectOnLoss(pc2, state2, l)

\* the arm with the threshold never stored
LoginSetCompressionNoStore(c, t, arg) ==
    IF arg <= 0 THEN << FALSE, t >> ELSE << TRUE, t >>

\* the arm with `< 0` for `<= 0`
LoginSetCompressionStrict(c, t, arg) ==
    IF arg < 0 THEN << FALSE, t >> ELSE << TRUE, arg >>

\* the arm that leaves compression as it was on a threshold <= 0
LoginSetCompressionSticky(c, t, arg) ==
    IF arg <= 0 THEN << c, t >> ELSE << TRUE, arg >>

\* the arm that turns a threshold <= 0 into compression with threshold 0
LoginSetCompressionZeroThreshold(c, t, arg) ==
    IF arg <= 0 THEN << TRUE, 0 >> ELSE << TRUE, arg >>

\* the LoginSetCompression arm of login: the new << compress, threshold >>
LoginSetCompression(c, t, arg) ==
    IF arg <= 0 THEN << FALSE, t >> ELSE << TRUE, arg >>

\* the LoginSetCompression arm of handle_packet
HandlePacketSetCompression(c, t, arg) ==
    IF arg <= 0 THEN << FALSE, t >> ELSE << TRUE, arg >>

\* thread body: TcpStream::connect succeeded, the NetworkManager is built
ConnectOk ==
    /\ pc = "spawned"
    /\ W("drain", FALSE, FALSE, 0, "Status", << >>, << >>, Step("connect", "Ok", << >>))
    /\ UNCHANGED << cmdq, appAlive, appPanicked, connection, appSent, sock, peer, srv, codecVars >>

\* a thread body that goes on to the update loop after reporting the error
ConnectFailThenLoop ==
    /\ pc = "spawned"
    /\ LET l == Step("connect", "Err", << >>)
       IN  IF appAlive
           THEN W("drain", close, compress, threshold, state, << >>,
                  << Event("Error", "", << >>) >>, l)
           ELSE Panic(l)
    /\ UNCHANGED << cmdq, appAlive, appPanicked, connection, appSent, sock, peer, srv, codecVars >>

\* thread body: TcpStream::connect failed
ConnectFail ==
    /\ pc = "spawned"
    /\ LET l == Step("connect", "Err", << >>)
       IN  IF appAlive
           THEN W("exited", close, compress, threshold, state, << >>,
                  << Event("Error", "", << >>) >>, l)
           ELSE Panic(l)
    /\ UNCHANGED << cmdq, appAlive, appPanicked, connection, appSent, sock, peer, srv, codecVars >>

\* update() has returned with close set: `while !nm.close` ends and the
\* stream is shut down with shutdown(Both).expect(..), which fails when the
\* connection is no longer there
Shutdown(close2, l) ==
    \E ok \in (IF peer = "reset" THEN BOOLEAN ELSE {TRUE}) :
        IF ok
        THEN W("exited", close2, compress, threshold, state, << >>, << >>, l)
        ELSE W("panicked", close2, compress, threshold, state, << >>, << >>, l)

\* a handle_message whose login() writes LoginStart before the handshake
HandleMessageLoginStartFirst(msg) ==
    LET l == Step("command", msg.cmd, msg.arg)
    IN  CASE msg.cmd = "Login" ->
                 Expect(W("login", close, compress, threshold, "Login",
                          << Framed(Packet("LoginStart", msg.arg)),
                             Framed(HandshakeSpec(PROTOCOL, 25565, 2)) >>, << >>, l), l)
          [] msg.cmd = "Disconnect" ->
                 Expect(W("drain", TRUE, compress, threshold, state,
                          << DisconnectFrame >>, << >>, l), l)
          [] msg.cmd = "SendPacket" ->
                 Expect(W("drain", close, compress, threshold, state,
                          << SendPacketBytes(compress, threshold, msg.arg) >>, << >>, l), l)
          [] msg.cmd = "RequestStatus" ->
                 Expect(W("status", close, compress, threshold, state,
                          << Framed(HandshakeSpec(PROTOCOL, 0, 1)),
                             Framed(Packet("StatusRequest", << >>)),
                             Framed(Packet("StatusPing", I64(0))) >>, << >>, l), l)
          [] OTHER -> W("drain", close, compress, threshold, state, << >>, << >>, l)

\* a handle_message whose SendPacket arm frames the bytes as on a connection
\* without compression
HandleMessageSendPlain(msg) ==
    LET l == Step("command", msg.cmd, msg.arg)
    IN  CASE msg.cmd = "Login" ->
                 Expect(W("login", close, compress, threshold, "Login",
                          << Framed(HandshakeSpec(PROTOCOL, 25565, 2)),
                             Framed(Packet("LoginStart", msg.arg)) >>, << >>, l), l)
          [] msg.cmd = "Disconnect" ->
                 Expect(W("drain", TRUE, compress, threshold, state,
                          << DisconnectFrame >>, << >>, l), l)
          [] msg.cmd = "SendPacket" ->
                 Expect(W("drain", close, compress, threshold, state,
                          << SendPacketBytes(FALSE, 0, msg.arg) >>, << >>, l), l)
          [] msg.cmd = "RequestStatus" ->
                 Expect(W("status", close, compress, threshold, state,
                          << Framed(HandshakeSpec(PROTOCOL, 0, 1)),
                             Framed(Packet("StatusRequest", << >>)),
                             Framed(Packet("StatusPing", I64(0))) >>, << >>, l), l)
          [] OTHER -> W("drain", close, compress, threshold, state, << >>, << >>, l)

\* handle_message up to its return or up to the wait loop of login / status
HandleMessage(msg) ==
    LET l == Step("command", msg.cmd, msg.arg)
    IN  CASE msg.cmd = "Login" ->
                 Expect(W("login", close, compress, threshold, "Login",
                          << Framed(HandshakeSpec(PROTOCOL, 25565, 2)),
                             Framed(Packet("LoginStart", msg.arg)) >>, << >>, l), l)
          [] msg.cmd = "Disconnect" ->
                 Expect(W("drain", TRUE, compress, threshold, state,
                          << DisconnectFrame >>, << >>, l), l)
          [] msg.cmd = "SendPacket" ->
                 Expect(W("drain", close, compress, threshold, state,
                          << SendPacketBytes(compress, threshold, msg.arg) >>, << >>, l), l)
          [] msg.cmd = "RequestStatus" ->
                 Expect(W("status", close, compress, threshold, state,
                          << Framed(HandshakeSpec(PROTOCOL, 0, 1)),
                             Framed(Packet("StatusRequest", << >>)),
                             Framed(Packet("StatusPing", I64(0))) >>, << >>, l), l)
          [] OTHER -> W("drain", close, compress, threshold, state, << >>, << >>, l)

\* an update() that takes Disconnected for Empty
DrainIgnoresDisconnect ==
    /\ pc = "drain"
    /\ IF cmdq # << >>
       THEN /\ cmdq' = Tail(cmdq)
            /\ HandleMessage(Head(cmdq))
       ELSE /\ cmdq' = cmdq
            /\ W("read", close, compress, threshold, state, << >>, << >>,
                 Step("drain", "Empty", << >>))
    /\ UNCHANGED << appAlive, appPanicked, connection, appSent, sock, peer, srv, codecVars >>

\* update(), first loop: one try_recv on the command channel.  On
\* Disconnected update() returns with close set and the thread shuts down.
Drain ==
    /\ pc = "drain"
    /\ IF cmdq # << >>
       THEN /\ cmdq' = Tail(cmdq)
            /\ HandleMessage(Head(cmdq))
       ELSE /\ cmdq' = cmdq
            /\ IF appAlive
               THEN W("read", close, compress, threshold, state, << >>, << >>,
                      Step("drain", "Empty", << >>))
               ELSE Shutdown(TRUE, Step("drain", "Disconnected", << >>))
    /\ UNCHANGED << appAlive, appPanicked, connection, appSent, sock, peer, srv, codecVars >>

\* the step recorded for what next_packet returned on path op
StepOf(op, o) ==
    Step(op, IF o.kind = "packet" THEN o.packet.kind ELSE o.kind,
         IF o.kind = "packet" THEN o.packet.arg ELSE << >>)

\* a match of login() that takes the unsupported requests for unexpected
\* packets and keeps waiting
LoginPacketSkipsUnsupported(p, l) ==
    CASE p.kind = "LoginSetCompression" ->
             LET n == LoginSetCompression(compress, threshold, p.arg[1])
             IN  W("login", close, n[1], n[2], state, << >>, << >>, l)
      [] p.kind = "LoginDisconnect" ->
             SendMessageThen(ReceivePacket(p), "drain", TRUE, state, l)
      [] p.kind = "LoginSuccess" ->
             SendMessageThen(ReceivePacket(p), "drain", close, "Play", l)
      [] OTHER -> W("login", close, compress, threshold, state, << >>, << >>, l)

\* the match of login() on a packet p
LoginPacket(p, l) ==
    CASE p.kind = "LoginEncryptionRequest" -> Panic(l)
      [] p.kind = "LoginSetCompression" ->
             LET n == LoginSetCompression(compress, threshold, p.arg[1])
             IN  W("login", close, n[1], n[2], state, << >>, << >>, l)
      [] p.kind = "LoginDisconnect" ->
             SendMessageThen(ReceivePacket(p), "drain", TRUE, state, l)
      [] p.kind = "LoginPluginRequest" -> Panic(l)
      [] p.kind = "LoginSuccess" ->
             SendMessageThen(ReceivePacket(p), "drain", close, "Play", l)
      [] OTHER -> W("login", close, compress, threshold, state, << >>, << >>, l)

\* the match of login() on what next_packet returned
LoginOn(o) ==
    /\ o.kind \notin {"wouldblock", "blocked"}
    /\ sock' = o.rest
    /\ IF o.kind = "packet"
       THEN LoginPacket(o.packet, StepOf("login_packet", o))
       ELSE Panic(StepOf("login_packet", o))

\* login(), one iteration of the wait loop that gets something other than
\* WouldBlock from next_packet
LoginStep ==
    /\ pc = "login"
    /\ LoginOn(NextPacketOutcome(sock, peer, compress, state))
    /\ UNCHANGED << cmdq, appAlive, appPanicked, connection, appSent, peer, srv, codecVars >>

\* RequestStatus arm after status() returned Some(status) or None, with a
\* variant of the latter that leaves close alone
StatusSome(body, l) ==
    SendMessageThen(Event("ReceiveStatus", "", body), "drain", TRUE, state, l)

StatusNoneNoClose(l, m) ==
    /\ W0("drain", close, compress, threshold, state, << >>, << >>, l)
    /\ mode' = m

StatusNone(l, m) ==
    /\ W0("drain", TRUE, compress, threshold, state, << >>, << >>, l)
    /\ mode' = m

\* The stream when next_packet returns Err: the `?` on read_varint and on
\* read_exact of the stream return between set_nonblocking(false) and
\* set_nonblocking(true); an Err of peek, or of a read_varint on the buffer,
\* is returned outside that window.
ModeAfterErr(sp, peer_) ==
    IF peer_ # "reset" /\ sp.kind = "short" THEN "blocking" ELSE "nonblocking"

\* a match of status() that gives up on a packet it does not expect
StatusOnOtherGivesUp(o, l, m) ==
    /\ o.kind \notin {"wouldblock", "blocked"}
    /\ sock' = o.rest
    /\ CASE o.kind = "packet" /\ o.packet.kind = "StatusResponse" ->
                StatusSome(o.packet.arg, l)
         [] o.kind = "packet" /\ o.packet.kind # "StatusResponse" ->
                W("drain", TRUE, compress, threshold, state, << >>, << >>, l)
         [] o.kind = "io" -> StatusNone(l, m)
         [] OTHER -> Panic(l)

\* the match of status() on what next_packet returned
StatusOn(o, l, m) ==
    /\ o.kind \notin {"wouldblock", "blocked"}
    /\ sock' = o.rest
    /\ CASE o.kind = "packet" /\ o.packet.kind = "StatusResponse" ->
                StatusSome(o.packet.arg, l)
         [] o.kind = "packet" /\ o.packet.kind # "StatusResponse" ->
                W("status", close, compress, threshold, state, << >>, << >>, l)
         [] o.kind = "io" -> StatusNone(l, m)
         [] OTHER -> Panic(l)

\* status(), one iteration of the wait loop that gets something other than
\* WouldBlock, and the rest of the RequestStatus arm when status() returns
StatusStep ==
    /\ pc = "status"
    /\ StatusOn(NextPacketOutcome(sock, peer, compress, state),
                StepOf("status_packet", NextPacketOutcome(sock, peer, compress, state)),
                ModeAfterErr(SplitFrame(sock), peer))
    /\ UNCHANGED << cmdq, appAlive, appPanicked, connection, appSent, peer, srv, codecVars >>

\* handle_packet without the keep-alive arm
HandlePacketNoKeepAlive(p, l) ==
    CASE p.kind = "LoginSetCompression" ->
             LET n == HandlePacketSetCompression(compress, threshold, p.arg[1])
             IN  W("read", close, n[1], n[2], state, << >>, << >>, l)
      [] OTHER -> SendMessageThen(ReceivePacket(p), "read", close, state, l)

\* handle_packet with a default arm that drops the packet
HandlePacketSwallows(p, l) ==
    CASE p.kind = "PlayServerKeepAlive" ->
             Expect(W("read", close, compress, threshold, state,
                      << Framed(Packet("PlayClientKeepAlive", p.arg)) >>, << >>, l), l)
      [] p.kind = "LoginSetCompression" ->
             LET n == HandlePacketSetCompression(compress, threshold, p.arg[1])
             IN  W("read", close, n[1], n[2], state, << >>, << >>, l)
      [] OTHER -> W("read", close, compress, threshold, state, << >>, << >>, l)

\* handle_packet
HandlePacket(p, l) ==
    CASE p.kind = "PlayServerKeepAlive" ->
             Expect(W("read", close, compress, threshold, state,
                      << Framed(Packet("PlayClientKeepAlive", p.arg)) >>, << >>, l), l)
      [] p.kind = "LoginSetCompression" ->
             LET n == HandlePacketSetCompression(compress, threshold, p.arg[1])
             IN  W("read", close, n[1], n[2], state, << >>, << >>, l)
      [] OTHER -> SendMessageThen(ReceivePacket(p), "read", close, state, l)

\* a match of update() that gives up the connection on a decode error
ReadOnDecodeCloses(o, l) ==
    /\ o.kind # "blocked"
    /\ CASE o.kind = "wouldblock" ->
                /\ sock' = sock
                /\ W("drain", close, compress, threshold, state, << >>, << >>, l)
         [] o.kind = "packet" -> sock' = o.rest /\ HandlePacket(o.packet, l)
         [] o.kind = "decode" ->
                /\ sock' = o.rest
                /\ W("read", TRUE, compress, threshold, state, << >>, << >>, l)
         [] OTHER -> sock' = o.rest /\ Panic(l)

\* the match of update() on what next_packet returned
ReadOn(o, l) ==
    /\ o.kind # "blocked"
    /\ CASE o.kind = "wouldblock" ->
                /\ sock' = sock
                /\ W("drain", close, compress, threshold, state, << >>, << >>, l)
         [] o.kind = "packet" -> sock' = o.rest /\ HandlePacket(o.packet, l)
         [] o.kind = "decode" ->
                /\ sock' = o.rest
                /\ W("read", close, compress, threshold, state, << >>, << >>, l)
         [] OTHER -> sock' = o.rest /\ Panic(l)

\* update(), second loop: the `while !self.close` test and one next_packet.
\* When update() returns, the thread either calls it again (close is false)
\* or leaves its loop and shuts the stream down.
ReadStep ==
    /\ pc = "read"
    /\ IF close
       THEN /\ sock' = sock
            /\ Shutdown(close, Step("read", "closed", << >>))
       ELSE ReadOn(NextPacketOutcome(sock, peer, compress, state),
                   StepOf("play_packet", NextPacketOutcome(sock, peer, compress, state)))
    /\ UNCHANGED << cmdq, appAlive, appPanicked, connection, appSent, peer, srv, codecVars >>

(***************************************************************************)
(* The environment: the application thread and the server                   *)
(***************************************************************************)
EnvStep ==
    UNCHANGED << pc, close, compress, threshold, state, mode, wire, sent, last, log, codecVars >>

\* the application enqueues one of the commands cmds (Server::send_command,
\* Server::send_packet, Server::disconnect)
AppSendOf(cmds) ==
    /\ appAlive /\ pc \notin {"exited", "panicked"}
    /\ Len(appSent) < MaxCmds
    /\ \E c \in cmds :
          /\ cmdq' = Append(cmdq, c)
          /\ appSent' = Append(appSent, c.cmd)
          /\ connection' = IF c.cmd = "Disconnect" THEN ClientDisconnected ELSE connection
    /\ EnvStep
    /\ UNCHANGED << evq, appAlive, sock, peer, srv, appPanicked >>

\* any user of the channel: every command at any time
AppSend == AppSendOf(AppCommands)

\* The commands this repository's application sends: Login or RequestStatus
\* right after connect (main_menu.rs), nothing more on a status connection,
\* and on a session SendPacket until it sends Disconnect (server.rs).
AppMaySend ==
    IF appSent = << >>
    THEN { c \in AppCommands : c.cmd \in {"Login", "RequestStatus"} }
    ELSE IF appSent[1] = "Login" /\ \A i \in 1..Len(appSent) : appSent[i] # "Disconnect"
         THEN { c \in AppCommands : c.cmd \in {"SendPacket", "Disconnect"} }
         ELSE { }

AppSendApp == AppSendOf(AppMaySend)

\* "Server forced disconnect. (You were probably sending too many connection
\* requests)", abridged to its first word
ForcedDisconnectText == << 83, 101, 114, 118, 101, 114 >>

\* Chat::to_traditional on the reason of a disconnect packet: the text of a
\* plain text component; a component without one gives None, replaced by
\* "No reason given" (abridged to "No")
NoReasonText == << 78, 111 >>

ToTraditional(chat) == IF chat = << >> THEN NoReasonText ELSE chat

\* Server::handle_message: the ConnectionState after the event comm
ConnectionAfter(comm) ==
    IF comm.ev = "ReceivePacket" /\ comm.kind \in {"PlayDisconnect", "LoginDisconnect"}
    THEN ServerDisconnected(ToTraditional(comm.arg))
    ELSE connection

\* the application dequeues an event (Server::update, try_recv -> Ok) and
\* handles it
AppRecv ==
    /\ appAlive /\ evq # << >>
    /\ evq' = Tail(evq)
    /\ connection' = ConnectionAfter(Head(evq))
    /\ EnvStep
    /\ UNCHANGED << cmdq, appAlive, appSent, sock, peer, srv, appPanicked >>

\* a Server::update that writes the generic text on every channel
\* disconnection
AppSeesDisconnectedAlways ==
    /\ appAlive /\ evq = << >>
    /\ pc \in {"exited", "panicked"}
    /\ connection # ServerDisconnected(ForcedDisconnectText)
    /\ connection' = ServerDisconnected(ForcedDisconnectText)
    /\ EnvStep
    /\ UNCHANGED << cmdq, evq, appAlive, appSent, sock, peer, srv, appPanicked >>

\* Server::update finds the event channel disconnected: the worker thread
\* has ended and every event it sent has been taken
AppSeesDisconnected ==
    /\ appAlive /\ evq = << >>
    /\ pc \in {"exited", "panicked"}
    /\ connection = Connected
    /\ connection' = ServerDisconnected(ForcedDisconnectText)
    /\ EnvStep
    /\ UNCHANGED << cmdq, evq, appAlive, appSent, sock, peer, srv, appPanicked >>

\* The application sends one of the commands cmds after the worker thread
\* has ended and dropped its receiver: Sender::send returns Err, and
\* Server::send_command / Server::send_packet answer with
\* panic!("Disconnected"), Server::disconnect with .expect(..).
AppSendFailsOf(cmds) ==
    /\ appAlive /\ pc \in {"exited", "panicked"}
    /\ connection = Connected
    /\ Len(appSent) < MaxCmds
    /\ cmds # { }
    /\ appPanicked' = TRUE
    /\ appAlive' = FALSE
    /\ EnvStep
    /\ UNCHANGED << cmdq, evq, connection, appSent, sock, peer, srv >>

AppSendFails == AppSendFailsOf(AppCommands)

AppSendFailsApp == AppSendFailsOf(AppMaySend)

\* the application drops the Server and with it both channel ends
AppDrop ==
    /\ appAlive
    /\ appAlive' = FALSE
    /\ EnvStep
    /\ UNCHANGED << cmdq, evq, connection, appSent, sock, peer, srv, appPanicked >>

\* The server writes while the connection is up, at most max frames, and
\* waits until the worker has read what it wrote before: the worker takes
\* the frames one at a time in stream order whether or not the next one has
\* already arrived.
ServerMayWriteUpTo(max) ==
    /\ Alive /\ peer = "open"
    /\ srv.frames < max
    /\ sock = << >>

ServerMayWrite == ServerMayWriteUpTo(MaxServerFrames)

\* the protocol phase the server is in: it learns the next state from the
\* handshake, the first frame of the connection, and enters Play when it
\* sends LoginSuccess
ServerPhase ==
    IF srv.play THEN "Play"
    ELSE IF wire = << >> THEN "Handshaking"
    ELSE IF wire[1] = SendPacketBytes(FALSE, 0, encode(HandshakeSpec(PROTOCOL, 25565, 2)))
         THEN "Login"
    ELSE IF wire[1] = SendPacketBytes(FALSE, 0, encode(HandshakeSpec(PROTOCOL, 0, 1)))
         THEN "Status"
    ELSE "Handshaking"

\* the server writes one of packets, framed under the compression it has
\* announced
ServerSendOf(packets, max) ==
    /\ ServerMayWriteUpTo(max)
    /\ \E p \in packets :
          /\ sock' = sock \o SendPacketBytes(srv.compress, srv.threshold, encode(p))
          /\ srv' = [compress |-> IF p.kind = "LoginSetCompression"
                                  THEN p.arg[1] > 0 ELSE srv.compress,
                     threshold |-> IF p.kind = "LoginSetCompression" /\ p.arg[1] > 0
                                   THEN p.arg[1] ELSE srv.threshold,
                     frames |-> srv.frames + 1,
                     play |-> srv.play \/ p.kind = "LoginSuccess"]
    /\ EnvStep
    /\ UNCHANGED << cmdq, evq, appAlive, appPanicked, connection, appSent, peer >>

\* the server writes one packet of its phase
ServerSend == ServerSendOf(ServerPackets(ServerPhase), MaxServerFrames)

\* a server that negotiates compression and then plays
ServerSendSession == ServerSendOf(SessionPackets(ServerPhase), MaxSessionFrames)

\* a frame in the deflated layout whose body is not a zlib stream
CorruptDeflatedFrame == DeflatedFrame(write_varint(1), << 0 >>)

\* the server of a session, having announced compression, writes a frame
\* whose deflated body is damaged
ServerSendCorrupt ==
    /\ ServerMayWriteUpTo(MaxSessionFrames)
    /\ srv.compress
    /\ sock' = sock \o CorruptDeflatedFrame
    /\ srv' = [srv EXCEPT !.frames = srv.frames + 1]
    /\ EnvStep
    /\ UNCHANGED << cmdq, evq, appAlive, appPanicked, connection, appSent, peer >>

\* the server writes bytes that are not a well-formed frame
ServerSendRaw ==
    /\ ServerMayWrite
    /\ \E b \in RawFrames : sock' = sock \o b
    /\ srv' = [srv EXCEPT !.frames = srv.frames + 1]
    /\ EnvStep
    /\ UNCHANGED << cmdq, evq, appAlive, appPanicked, connection, appSent, peer >>

\* the server closes its end (FIN): what it wrote can still be read
ServerClose ==
    /\ Alive /\ peer = "open"
    /\ peer' = "closed"
    /\ EnvStep
    /\ UNCHANGED << cmdq, evq, appAlive, appPanicked, connection, appSent, sock, srv >>

\* the connection is reset (RST): reads and writes fail from now on
ServerReset ==
    /\ Alive /\ peer \in {"open", "closed"}
    /\ peer' = "reset"
    /\ EnvStep
    /\ UNCHANGED << cmdq, evq, appAlive, appPanicked, connection, appSent, sock, srv >>

\* thread::Builder::spawn failed: connect returns the error through `?`,
\* there is no worker thread and the application gets no Server
SpawnFailed ==
    /\ pc = "nospawn"
    /\ close = FALSE
    /\ compress = FALSE
    /\ threshold = 0
    /\ state = "Status"
    /\ cmdq = << >>
    /\ evq = << >>
    /\ appAlive = FALSE
    /\ appPanicked = FALSE
    /\ connection = Connected
    /\ appSent = << >>
    /\ sock = << >>
    /\ mode = "none"
    /\ peer = "open"
    /\ srv = [compress |-> FALSE, threshold |-> 0, frames |-> 0, play |-> FALSE]
    /\ wire = << >>
    /\ sent = << >>
    /\ last = Step("init", "", << >>)
    /\ log = << >>

\* what NetworkManager::connect returned to its caller
ConnectReturnedOk == pc # "nospawn"

\* the state when NetworkManager::connect returns
Init ==
    /\ WorkerInit \/ SpawnFailed
    /\ varintTest = VarintIdle
    /\ frameTest = FrameIdle
    /\ input = InputNew

Next ==
    \/ ConnectOk \/ ConnectFail \/ Drain \/ LoginStep \/ StatusStep \/ ReadStep
    \/ AppSend \/ AppSendFails \/ AppRecv \/ AppSeesDisconnected \/ AppDrop
    \/ ServerSend \/ ServerSendRaw \/ ServerClose \/ ServerReset

Spec == Init /\ [][Next]_vars

\* the worker with this repository's application as the user of the channel
NextApp ==
    \/ ConnectOk \/ ConnectFail \/ Drain \/ LoginStep \/ StatusStep \/ ReadStep
    \/ AppSendApp \/ AppSendFailsApp \/ AppRecv \/ AppSeesDisconnected \/ AppDrop
    \/ ServerSend \/ ServerSendRaw \/ ServerClose \/ ServerReset

SpecApp == Init /\ [][NextApp]_vars

\* the worker and the application with a server that negotiates
\* compression over a longer exchange
NextSession ==
    \/ ConnectOk \/ ConnectFail \/ Drain \/ LoginStep \/ StatusStep \/ ReadStep
    \/ AppSendApp \/ AppSendFailsApp \/ AppRecv \/ AppSeesDisconnected \/ AppDrop
    \/ ServerSendSession \/ ServerSendCorrupt \/ ServerClose \/ ServerReset

SpecSession == Init /\ [][NextSession]_vars

\* the thread's exit from `while !nm.close`: the loop test with close set
ThreadExit == close /\ ReadStep

\* The worker thread is scheduled: standing at the command drain or at the
\* loop test with close set, it eventually takes that step.
FairSpecApp == SpecApp /\ WF_vars(Drain) /\ WF_vars(ThreadExit)

(***************************************************************************)
(* Codec properties                                                         *)
(***************************************************************************)
\* C8: read_varint applied to the bytes write_varint(v) produced returns v
\* and consumes exactly those bytes, whose number is between 1 and 5, for
\* every i32 v (negative values included), whatever follows on the reader.
VarintRoundTrip ==
    varintTest.stage = "read" =>
        /\ varintTest.read.ok
        /\ varintTest.read.val = varintTest.val
        /\ varintTest.read.used = Len(varintTest.bytes)
        /\ Len(varintTest.bytes) \in 1..5
        /\ ~varintTest.read.over

VarintRoundTripWitness ==
    /\ varintTest.stage = "read"
    /\ varintTest.val < 0
    /\ varintTest.trailer # << >>
    /\ varintTest.read.val = varintTest.val

\* C9: write_varint encodes 0 as [0x00], 127 as [0x7F] and 128 as
\* [0x80, 0x01]; every byte but the last has bit 0x80 set and the last has
\* it clear.
VarintEncodingShape ==
    varintTest.stage \in {"written", "read"} =>
        LET b == varintTest.bytes
        IN  /\ Len(b) >= 1
            /\ \A i \in 1..(Len(b) - 1) : b[i] >= 128 /\ b[i] <= 255
            /\ b[Len(b)] >= 0 /\ b[Len(b)] < 128
            /\ (varintTest.val = 0 => b = << 0 >>)
            /\ (varintTest.val = 127 => b = << 127 >>)
            /\ (varintTest.val = 128 => b = << 128, 1 >>)

VarintEncodingShapeWitness ==
    /\ varintTest.stage = "written"
    /\ varintTest.val = 128
    /\ varintTest.bytes = << 128, 1 >>

\* the frame the harness decoded is exactly the one written, and it yields
\* the packet id and payload that were sent
FrameRecovered ==
    /\ frameTest.split.kind = "frame"
    /\ frameTest.split.rest = << >>
    /\ frameTest.out.tag = "ok"
    /\ frameTest.out.id = frameTest.id
    /\ frameTest.out.contents = frameTest.payload

\* C5: without compression, next_packet decodes the bytes send_packet wrote
\* into the same (id, payload), for every id and payload, the empty payload
\* included.
FrameRoundTripPlain ==
    (frameTest.stage = "received" /\ ~frameTest.compress) =>
        FrameRecovered /\ ~frameTest.out.inflated

FrameRoundTripPlainWitness ==
    /\ frameTest.stage = "received"
    /\ ~frameTest.compress
    /\ frameTest.payload = << >>
    /\ frameTest.out.id = frameTest.id

\* C6: with compression on and len(id + payload) >= threshold, the frame
\* written has a non-zero data-length field and a deflated body, and
\* next_packet inflates it and recovers exactly (id, payload).
FrameRoundTripDeflated ==
    (frameTest.compress /\ Len(FramePacket) >= frameTest.threshold) =>
        /\ frameTest.stage \in {"sent", "received"} =>
              LET sp == SplitFrame(frameTest.wire)
                  dl == read_varint(sp.buf)
                  z  == decompress_to_vec_zlib(Drop(sp.buf, dl.used))
              IN  /\ sp.kind = "frame"
                  /\ dl.ok /\ dl.val # 0
                  /\ z.ok /\ z.data = FramePacket
                  /\ Drop(sp.buf, dl.used) # FramePacket
        /\ frameTest.stage = "received" => FrameRecovered /\ frameTest.out.inflated

FrameRoundTripDeflatedWitness ==
    /\ frameTest.stage = "received"
    /\ frameTest.compress
    /\ Len(FramePacket) = frameTest.threshold
    /\ frameTest.out.inflated
    /\ frameTest.out.contents = frameTest.payload

\* C7: with compression on and len(id + payload) < threshold, the frame
\* written carries the single byte 0x00 as data-length followed by the raw
\* bytes, and next_packet recovers (id, payload) on the data_len == 0 branch
\* without inflating.
FrameRoundTripBelowThreshold ==
    (frameTest.compress /\ Len(FramePacket) < frameTest.threshold) =>
        /\ frameTest.stage \in {"sent", "received"} =>
              LET sp == SplitFrame(frameTest.wire)
              IN  /\ sp.kind = "frame"
                  /\ sp.buf = << 0 >> \o FramePacket
        /\ frameTest.stage = "received" => FrameRecovered /\ ~frameTest.out.inflated

FrameRoundTripBelowThresholdWitness ==
    /\ frameTest.stage = "received"
    /\ frameTest.compress
    /\ Len(FramePacket) + 1 = frameTest.threshold
    /\ ~frameTest.out.inflated
    /\ frameTest.out.contents = frameTest.payload

(***************************************************************************)
(* Worker properties                                                        *)
(***************************************************************************)
Terminated == pc \in {"exited", "panicked"}

LoginCmdStep == Step("command", "Login", PlayerName)

SetCompressionStep(t) == Step("login_packet", "LoginSetCompression", << t >>)

LoginSuccessStep == Step("login_packet", "LoginSuccess", PlayerName)

LoginDisconnectStep == Step("login_packet", "LoginDisconnect", ReasonBanned)

KeepAliveStep == Step("play_packet", "PlayServerKeepAlive", KeepAliveId)

StatusResponseStep == Step("status_packet", "StatusResponse", StatusJson)

StatusErrStep == Step("status_packet", "io", << >>)

InLog(l) == \E i \in 1..Len(log) : log[i] = l

CountEvents(ev) == Cardinality({ i \in 1..Len(sent) : sent[i].ev = ev })

\* C1: on a connection whose first command is Login, with the application
\* holding its channel end, when the server's frames are SetCompression(256)
\* and then LoginSuccess, login returns to the command drain with protocol
\* state Play, compression enabled, threshold 256, close unset, and the
\* ReceivePacket(LoginSuccess) event is the one event sent.
LoginSuccessScenario ==
    [][ (appAlive /\ log = << LoginCmdStep, SetCompressionStep(256) >>
                  /\ log' = Append(log, LoginSuccessStep))
        => /\ pc' = "drain"
           /\ state' = "Play"
           /\ compress' /\ threshold' = 256
           /\ ~close'
           /\ sent' = << ReceivePacket(Packet("LoginSuccess", PlayerName)) >> ]_vars

LoginSuccessScenarioWitness ==
    /\ log = << LoginCmdStep, SetCompressionStep(256), LoginSuccessStep >>
    /\ last = LoginSuccessStep
    /\ pc = "drain" /\ state = "Play" /\ compress /\ threshold = 256 /\ ~close
    /\ CountEvents("ReceivePacket") = 1

\* C2: when the server answers the application's Login with
\* LoginDisconnect(reason), the worker sends one ReceivePacket event carrying
\* the reason (the application holding its channel end) and sets close; from
\* then on the protocol state is never Play, and the worker thread ends.
LoginFailureScenario ==
    /\ [][ log' = Append(log, LoginDisconnectStep)
           => /\ pc' = "panicked" \/ (close' /\ pc' = "drain")
              /\ appAlive => sent' = Append(sent, ReceivePacket(Packet("LoginDisconnect", ReasonBanned)))
              /\ state' # "Play" ]_vars
    /\ [](InLog(LoginDisconnectStep) => state # "Play" /\ (close \/ pc = "panicked"))
    /\ (InLog(LoginDisconnectStep) ~> Terminated)

LoginFailureScenarioWitness ==
    /\ log = << LoginCmdStep, LoginDisconnectStep >>
    /\ sent = << ReceivePacket(Packet("LoginDisconnect", ReasonBanned)) >>
    /\ close /\ state = "Login" /\ pc = "exited"

\* the one frame f is a PlayClientKeepAlive carrying id under the current
\* compression state
IsKeepAliveEcho(f, id) ==
    LET sp == SplitFrame(f)
        pr == ParseFrame(compress, sp.buf)
    IN  /\ sp.kind = "frame" /\ sp.rest = << >>
        /\ pr.tag = "ok"
        /\ pr.id = PacketId("PlayClientKeepAlive")
        /\ pr.contents = id

\* C3: a step of the steady-state loop that handles PlayServerKeepAlive(id)
\* sends no event to the application and appends exactly one frame to the
\* stream, a PlayClientKeepAlive with the same id; only when the peer is no
\* longer there can the write fail, and then nothing is written and the
\* `.expect` ends the thread.
KeepAliveEchoed ==
    [][ log' = Append(log, KeepAliveStep)
        => /\ sent' = sent /\ evq' = evq
           /\ \/ /\ Len(wire') = Len(wire) + 1
                 /\ SubSeq(wire', 1, Len(wire)) = wire
                 /\ IsKeepAliveEcho(wire'[Len(wire')], KeepAliveId)
                 /\ pc' = "read"
              \/ /\ peer # "open"
                 /\ wire' = wire
                 /\ pc' = "panicked" ]_vars

KeepAliveEchoedWitness ==
    /\ last = KeepAliveStep
    /\ pc = "read"
    /\ wire # << >>
    /\ IsKeepAliveEcho(wire[Len(wire)], KeepAliveId)
    /\ CountEvents("ReceivePacket") = 1

\* C4: on a status connection, when status() gets the StatusResponse the
\* worker sends exactly one ReceiveStatus event carrying its payload (the
\* application holding its channel end), when next_packet fails it sends
\* none, in both cases close is set, and the worker thread then ends.
StatusOneShot ==
    /\ [][ log' = Append(log, StatusResponseStep)
           => /\ pc' = "panicked" \/ (close' /\ pc' = "drain")
              /\ appAlive => sent' = Append(sent, Event("ReceiveStatus", "", StatusJson)) ]_vars
    /\ [][ log' = Append(log, StatusErrStep)
           => close' /\ pc' = "drain" /\ sent' = sent ]_vars
    /\ [](CountEvents("ReceiveStatus") <= 1)
    /\ [](InLog(StatusErrStep) => CountEvents("ReceiveStatus") = 0 /\ close)
    /\ [](InLog(StatusResponseStep) => close \/ pc = "panicked")
    /\ ((InLog(StatusResponseStep) \/ InLog(StatusErrStep)) ~> Terminated)

StatusOneShotWitness ==
    /\ log = << Step("command", "RequestStatus", << >>), StatusResponseStep >>
    /\ sent = << Event("ReceiveStatus", "", StatusJson) >>
    /\ close /\ pc = "exited"

\* C10: after the worker has handled SetCompression(threshold), in login or
\* in the steady-state loop, compression is disabled if threshold <= 0 and
\* otherwise enabled with exactly that threshold; this holds after each of
\* any number of SetCompression(0) in a row.  The arm of handle_packet gives
\* the same result in every state the worker reaches.
SetCompressionApplied ==
    /\ (log # << >> /\ log[Len(log)].kind = "LoginSetCompression"
                    /\ log[Len(log)].op \in {"login_packet", "play_packet"})
       => LET t == log[Len(log)].arg[1]
          IN  IF t <= 0 THEN ~compress ELSE compress /\ threshold = t
    /\ \A t \in ThresholdArgs :
          LET n == HandlePacketSetCompression(compress, threshold, t)
          IN  IF t <= 0 THEN ~n[1] ELSE n[1] /\ n[2] = t

SetCompressionAppliedWitness ==
    /\ log = << LoginCmdStep, SetCompressionStep(0), SetCompressionStep(0) >>
    /\ ~compress
    /\ pc = "login"

\* positions of the handled SetCompression packets in the log
SetCompressionAt == { i \in 1..Len(log) : log[i].kind = "LoginSetCompression" }

Last(S) == CHOOSE i \in S : \A j \in S : j <= i

\* the last two SetCompression packets handled were (before) and then (after)
LastTwoSetCompression(before, after) ==
    /\ Cardinality(SetCompressionAt) >= 2
    /\ log[Last(SetCompressionAt)].arg[1] = after
    /\ log[Last(SetCompressionAt \ {Last(SetCompressionAt)})].arg[1] = before

\* the uncompressed layout: varint length, then packet id and payload
PlainFrame(x) == write_varint(Len(x)) \o x

\* what the worker hands to send_packet
WorkerPayloads ==
    { ChatBytes,
      encode(Packet("PlayClientKeepAlive", KeepAliveId)),
      encode(Packet("PlayDisconnect", PlayerDisconnectedText)),
      encode(HandshakeSpec(PROTOCOL, 25565, 2)),
      encode(HandshakeSpec(PROTOCOL, 0, 1)),
      encode(Packet("LoginStart", PlayerName)),
      encode(Packet("StatusRequest", << >>)),
      encode(Packet("StatusPing", I64(0))) }

PacketKinds ==
    { "StatusResponse", "StatusPong", "LoginDisconnect", "LoginEncryptionRequest",
      "LoginSuccess", "LoginSetCompression", "LoginPluginRequest",
      "PlayServerDifficulty", "PlayDisconnect", "PlayServerKeepAlive" }

\* the step from the current state took a frame off the stream
ReadsFrame ==
    /\ Len(log') = Len(log) + 1
    /\ log'[Len(log')].op \in {"login_packet", "status_packet", "play_packet"}

\* the step from the current state read a frame that decoded to a packet
ReadsPacket ==
    /\ ReadsFrame
    /\ log'[Len(log')].kind \in PacketKinds

\* C11: once SetCompression(512) and then SetCompression(0) have been
\* handled, and until a SetCompression with a positive threshold is handled,
\* every frame the worker writes is the uncompressed layout of what was
\* handed to send_packet (varint length, id, payload, no data-length field),
\* every frame it decodes is the uncompressed layout of the packet it
\* decodes to, and a frame the server wrote in that layout is decoded to the
\* packet the server sent.
PlainAfterCompressionOff ==
    [][ LastTwoSetCompression(512, 0)
        => /\ Len(wire') >= Len(wire)
           /\ \A i \in (Len(wire) + 1)..Len(wire') :
                 \E x \in WorkerPayloads : wire'[i] = PlainFrame(x)
           /\ ReadsPacket =>
                 sock = PlainFrame(encode(Packet(log'[Len(log')].kind, log'[Len(log')].arg)))
                        \o sock'
           /\ \A q \in SessionPackets(ServerPhase) :
                 (sock = PlainFrame(encode(q)) /\ peer # "reset" /\ ReadsFrame)
                 => log'[Len(log')].kind = q.kind /\ log'[Len(log')].arg = q.arg ]_vars

PlainAfterCompressionOffWitness ==
    /\ LastTwoSetCompression(512, 0)
    /\ last = KeepAliveStep
    /\ ~compress
    /\ wire[Len(wire)] = PlainFrame(encode(Packet("PlayClientKeepAlive", KeepAliveId)))

\* C12: the protocol state starts at Handshake (mcproto_rs: Handshaking) and
\* changes only along Handshake -> Status, Handshake -> Login and
\* Login -> Play.
StateMachineFromHandshake ==
    /\ state = "Handshaking"
    /\ [][ state' # state
           => << state, state' >> \in { << "Handshaking", "Status" >>,
                                        << "Handshaking", "Login" >>,
                                        << "Login", "Play" >> } ]_vars

\* C13: once the protocol state is Play no command and no inbound packet
\* changes it.
PlayIsAbsorbing == [][ state = "Play" => state' = "Play" ]_vars

DisconnectQueued == \E i \in 1..Len(cmdq) : cmdq[i].cmd = "Disconnect"

DisconnectHandled == InLog(Step("command", "Disconnect", << >>))

\* C14: whenever the application has enqueued Disconnect for a live worker,
\* the worker eventually handles it, for every behaviour of the server; here
\* for the server the claim names, one that stays silent (it has written no
\* frame and keeps the connection open).  A worker ended by a fatal error
\* is let off.
DisconnectHonoured ==
    (DisconnectQueued /\ Alive)
        ~> (DisconnectHandled \/ Terminated \/ srv.frames > 0 \/ peer # "open")

IsCommand(l) == l.op = "command"

\* the commands handled so far, in the order they were handled
HandledCmds ==
    LET h == SelectSeq(log, IsCommand) IN [i \in 1..Len(h) |-> h[i].kind]

QueuedCmds == [i \in 1..Len(cmdq) |-> cmdq[i].cmd]

\* a frame read off the socket whose packet is forwarded to the application
IsForwarded(l) ==
    \/ l.op = "login_packet" /\ l.kind \in {"LoginDisconnect", "LoginSuccess"}
    \/ l.op = "status_packet" /\ l.kind = "StatusResponse"
    \/ l.op = "play_packet"
          /\ l.kind \in PacketKinds \ {"PlayServerKeepAlive", "LoginSetCompression"}

ToEvent(l) ==
    IF l.op = "status_packet"
    THEN Event("ReceiveStatus", "", l.arg)
    ELSE Event("ReceivePacket", l.kind, l.arg)

\* the events of the forwarded frames, in the order the frames were read
EventsOfLog ==
    LET f == SelectSeq(log, IsForwarded) IN [i \in 1..Len(f) |-> ToEvent(f[i])]

IsPacketEvent(e) == e.ev # "Error"

IsPrefix(a, b) == Len(a) <= Len(b) /\ a = SubSeq(b, 1, Len(a))

\* C15: the events sent are those of the forwarded frames in the order the
\* frames were read, one event per frame while the application holds its
\* end; the events still queued are the last ones sent, and the application
\* dequeues from the front, so it sees them in that order; the commands
\* handled followed by the commands still queued are the commands the
\* application enqueued, in its order.
ChannelOrder ==
    /\ [](/\ IsPrefix(SelectSeq(sent, IsPacketEvent), EventsOfLog)
          /\ appAlive => SelectSeq(sent, IsPacketEvent) = EventsOfLog
          /\ Len(evq) <= Len(sent)
          /\ evq = SubSeq(sent, Len(sent) - Len(evq) + 1, Len(sent))
          /\ HandledCmds \o QueuedCmds = appSent)
    /\ [][ /\ Len(evq') < Len(evq) => evq' = Tail(evq) /\ sent' = sent
           /\ Len(cmdq') < Len(cmdq) =>
                 /\ cmdq' = Tail(cmdq)
                 /\ \/ log' = Append(log, Step("command", Head(cmdq).cmd, Head(cmdq).arg))
                    \/ pc' = "panicked" ]_vars

ChannelOrderWitness ==
    /\ Len(sent) = 2 /\ Len(evq) = 1
    /\ sent[1] # sent[2]
    /\ Len(HandledCmds) = 2 /\ HandledCmds[1] # HandledCmds[2]

ConnectErrStep == Step("connect", "Err", << >>)

\* C16: when TcpStream::connect fails, the thread sends one Error event (the
\* application holding its channel end) and ends: it never runs the update
\* loop, handles no command and writes no frame, then or later.
ConnectFailureReported ==
    /\ [][ (last # ConnectErrStep /\ last' = ConnectErrStep)
           => /\ appAlive => (sent' = << Event("Error", "", << >>) >> /\ pc' = "exited")
              /\ ~appAlive => (sent' = << >> /\ pc' = "panicked") ]_vars
    /\ [](last = ConnectErrStep
          => /\ Terminated
             /\ log = << >> /\ wire = << >>
             /\ Len(sent) <= 1)
    /\ [][ last = ConnectErrStep => (last' = last /\ sent' = sent /\ cmdq' = cmdq) ]_vars

ConnectFailureReportedWitness ==
    /\ last = ConnectErrStep
    /\ sent = << Event("Error", "", << >>) >>
    /\ cmdq # << >>
    /\ pc = "exited"

\* C17: NetworkManager::connect returns Err when the TcpStream could not be
\* established and Ok(Server) only when it was.
ConnectResultTellsStream == [](last = ConnectErrStep => ~ConnectReturnedOk)

ChannelLostStep == Step("drain", "Disconnected", << >>)

\* C18: with the application's end of the command channel dropped, the
\* worker's drain first handles the commands still queued; the drain that
\* finds the queue empty sets close and returns without reading a frame, and
\* the thread leaves its loop.
ChannelLossCloses ==
    /\ [][ (pc = "drain" /\ ~appAlive /\ pc' # pc)
           => IF cmdq # << >>
              THEN cmdq' = Tail(cmdq) /\ last'.op = "command"
              ELSE /\ last' = ChannelLostStep
                   /\ close'
                   /\ sock' = sock /\ log' = log /\ wire' = wire
                   /\ pc' = "exited" \/ (pc' = "panicked" /\ peer = "reset") ]_vars
    /\ [][ (pc = "drain" /\ ~appAlive /\ cmdq = << >>) => pc' \notin {"read", "login", "status"} ]_vars

ChannelLossClosesWitness ==
    /\ last = ChannelLostStep
    /\ close /\ pc = "exited"
    /\ sock # << >>
    /\ Len(HandledCmds) = 2

DecodeErrStep(op) == Step(op, "decode", << >>)

\* C19: in the steady-state loop a complete frame whose packet does not
\* deserialize is dropped: the frame is consumed, close stays false, no event
\* is sent and nothing is written, protocol state and compression are
\* unchanged, and the loop stands at its next read.
DecodeErrorDropped ==
    [][ log' = Append(log, DecodeErrStep("play_packet"))
        => /\ ~close /\ ~close'
           /\ sent' = sent /\ evq' = evq /\ wire' = wire
           /\ state' = state /\ compress' = compress /\ threshold' = threshold
           /\ Len(sock') < Len(sock)
           /\ pc = "read" /\ pc' = "read" ]_vars

DecodeErrorDroppedWitness ==
    /\ log = << DecodeErrStep("play_packet"), DecodeErrStep("play_packet") >>
    /\ pc = "read" /\ ~close
    /\ sent = << >>

\* C20: a frame that fails to deserialize while the worker waits for the
\* login result or for the status response is dropped and the wait loop
\* continues; the worker does not terminate.
DecodeErrorRecoveredInWait ==
    [][ \A op \in {"login_packet", "status_packet"} :
           log' = Append(log, DecodeErrStep(op)) => pc' = pc /\ pc' # "panicked" ]_vars

\* C21: when sending an event fails because the application's receiver is
\* gone, the worker sets close, attempts one PlayDisconnect frame, and
\* terminates in order whether or not that write succeeds.
SendFailureOrderly ==
    [][ (~appAlive /\ log' = Append(log, last') /\ IsForwarded(last'))
        => /\ close'
           /\ wire' \in {wire, Append(wire, DisconnectFrame)}
           /\ pc' # "panicked" ]_vars

\* a read that ended with an I/O error other than WouldBlock ("io") or with
\* a peek of 0 bytes ("dead")
IsFatalRead(l) ==
    /\ l.op \in {"login_packet", "status_packet", "play_packet"}
    /\ l.kind \in {"io", "dead"}

FatalReadSeen == \E i \in 1..Len(log) : IsFatalRead(log[i])

\* C22: a socket read error other than WouldBlock, or a peek of 0 bytes, is
\* fatal to the worker: after it the worker reads no frame, handles no
\* command and sends no event.
FatalReadStops ==
    [][ FatalReadSeen => log' = log /\ sent' = sent /\ Len(sock') >= Len(sock) ]_vars

\* the steps that end with stream.shutdown(Both): the loop test that finds
\* close set, and the drain that finds the channel disconnected
IsShutdownStep(l) == l \in { Step("read", "closed", << >>), ChannelLostStep }

\* C23: on every path by which the worker of an established connection
\* stops, it attempts to shut the stream down, and a failing shutdown does
\* not escalate.
StopsThroughShutdown ==
    [][ (Alive /\ Terminated') => IsShutdownStep(last') /\ pc' = "exited" ]_vars

IsUnsupportedLoginStep(l) ==
    /\ l.op = "login_packet"
    /\ l.kind \in {"LoginEncryptionRequest", "LoginPluginRequest"}

\* C24: an EncryptionRequest or PluginRequest read during login ends the
\* login at once: the thread stops in that step with the protocol state
\* still Login, nothing is forwarded or written by the step, and a stopped
\* thread forwards nothing and changes no state afterwards, so the
\* application finds its channel closed.
UnsupportedLoginFails ==
    /\ [][ (log' = Append(log, last') /\ IsUnsupportedLoginStep(last'))
           => /\ pc = "login" /\ Terminated'
              /\ state' = "Login"
              /\ sent' = sent /\ evq' = evq /\ wire' = wire ]_vars
    /\ [][ Terminated => pc' = pc /\ state' = state /\ sent' = sent /\ log' = log ]_vars

UnsupportedLoginFailsWitness ==
    /\ log = << LoginCmdStep, Step("login_packet", "LoginPluginRequest", << 0 >>) >>
    /\ pc = "panicked"
    /\ state = "Login"
    /\ appAlive

\* handle_packet(p) as a step of its own, from any state of the worker
HandlePacketAlone(p) ==
    /\ HandlePacket(p, Step("play_packet", p.kind, p.arg))
    /\ UNCHANGED << cmdq, appAlive, appPanicked, connection, appSent, sock, peer, srv, codecVars >>

\* a step that changes something other than compress and threshold, or
\* produces an event or a frame
MoreThanCompression ==
    \/ sent' # sent \/ evq' # evq \/ wire' # wire
    \/ state' # state \/ close' # close \/ pc' # "read"

ForwardedKinds == PacketKinds \ {"PlayServerKeepAlive", "LoginSetCompression"}

\* C25: in the steady-state loop a decoded packet other than
\* PlayServerKeepAlive and LoginSetCompression is forwarded as exactly one
\* ReceivePacket event carrying that packet (while the application holds
\* the channel), and nothing else changes; handle_packet on
\* LoginSetCompression changes compress and threshold only, in every state
\* the worker reaches.
PlayPacketsForwarded ==
    /\ [][ (appAlive /\ log' = Append(log, last')
                     /\ last'.op = "play_packet" /\ last'.kind \in ForwardedKinds)
           => /\ sent' = Append(sent, ReceivePacket(Packet(last'.kind, last'.arg)))
              /\ evq' = Append(evq, ReceivePacket(Packet(last'.kind, last'.arg)))
              /\ wire' = wire
              /\ state' = state /\ compress' = compress /\ threshold' = threshold
              /\ close' = close /\ pc' = "read" ]_vars
    /\ [](\A t \in ThresholdArgs :
            /\ ENABLED HandlePacketAlone(Packet("LoginSetCompression", << t >>))
            /\ ~ENABLED (HandlePacketAlone(Packet("LoginSetCompression", << t >>))
                         /\ MoreThanCompression))

PlayPacketsForwardedWitness ==
    /\ last = Step("play_packet", "PlayServerDifficulty", << 1, 0 >>)
    /\ sent = << ReceivePacket(Packet("LoginSuccess", PlayerName)),
                 ReceivePacket(Packet("PlayServerDifficulty", << 1, 0 >>)) >>
    /\ pc = "read" /\ ~close

IsInflateFailure(l) ==
    /\ l.op \in {"login_packet", "status_packet", "play_packet"}
    /\ l.kind = "todo"

\* C26: with compression enabled, a frame whose non-zero data-length body
\* fails to inflate ends the worker: the step forwards nothing, and the
\* worker reads no frame, handles no command and sends no event afterwards.
InflateFailureFatal ==
    /\ [][ (log' = Append(log, last') /\ IsInflateFailure(last'))
           => /\ compress
              /\ Terminated'
              /\ sent' = sent /\ evq' = evq /\ wire' = wire ]_vars
    /\ [][ (compress /\ peer # "reset" /\ sock = CorruptDeflatedFrame /\ ReadsFrame)
           => IsInflateFailure(last') /\ Terminated' ]_vars
    /\ [][ (\E i \in 1..Len(log) : IsInflateFailure(log[i]))
           => log' = log /\ sent' = sent /\ Len(sock') >= Len(sock) ]_vars
    /\ [](\A i \in 1..Len(log) : IsInflateFailure(log[i]) => i = Len(log) /\ Terminated)

InflateFailureFatalWitness ==
    /\ Len(log) = 4
    /\ log[2] = SetCompressionStep(8)
    /\ log[3] = LoginSuccessStep
    /\ log[4] = Step("play_packet", "todo", << >>)
    /\ pc = "panicked"
    /\ sent = << ReceivePacket(Packet("LoginSuccess", PlayerName)) >>

\* C27: read_varint consumes at most 5 bytes, and returns an error when the
\* fifth byte still has the continuation bit set.
VarintCapped ==
    varintTest.stage = "scanned" =>
        /\ varintTest.read.used <= 5
        /\ ~varintTest.read.over
        /\ (Len(varintTest.bytes) >= 5 /\ varintTest.bytes[5] >= 128) => ~varintTest.read.ok

IsDisconnectEvent(e) ==
    e.ev = "ReceivePacket" /\ e.kind \in {"PlayDisconnect", "LoginDisconnect"}

\* the events the application has taken off the channel
Consumed == SubSeq(sent, 1, Len(sent) - Len(evq))

\* C28: when the session handles a forwarded LoginDisconnect(reason) or
\* PlayDisconnect(reason) its connection state becomes ServerDisconnected
\* with that reason, and the channel disconnection it observes after the
\* worker has ended does not put the generic text in its place.
DisconnectReasonKept ==
    /\ [][ (appAlive /\ evq # << >> /\ evq' = Tail(evq) /\ IsDisconnectEvent(Head(evq)))
           => connection' = ServerDisconnected(Head(evq).arg) ]_vars
    /\ [][ (Terminated /\ evq = << >> /\ connection # Connected)
           => connection' = connection ]_vars
    /\ []((\E i \in 1..Len(Consumed) : IsDisconnectEvent(Consumed[i]))
            => connection \notin {Connected, ServerDisconnected(ForcedDisconnectText)})

DisconnectReasonKeptWitness ==
    /\ connection = ServerDisconnected(ReasonBanned)
    /\ pc = "exited"
    /\ evq = << >>
    /\ appAlive
    /\ \E i \in 1..Len(sent) : sent[i].kind = "LoginDisconnect"

\* C29: for the Keyboard and the Mouse, pressed_this_frame(k) is true
\* exactly when a press event for k was delivered since the last
\* next_frame(), released_this_frame(k) exactly when a release event was,
\* whatever the sequence of events within the frame; next_frame() leaves
\* is_pressed(k) unchanged.
InputEdges ==
    /\ [](\A k \in KeyCodes :
            /\ KeyPressedThisFrame(input, k) <=> k \in input.keyPresses
            /\ KeyReleasedThisFrame(input, k) <=> k \in input.keyReleases)
    /\ [](\A b \in Buttons :
            /\ pressed_this_frame(input, b) <=> b \in input.buttonPresses
            /\ released_this_frame(input, b) <=> b \in input.buttonReleases)
    /\ [][ input' = next_frame(input)
           => /\ \A k \in KeyCodes : KeyIsPressed(input', k) = KeyIsPressed(input, k)
              /\ \A b \in Buttons : is_pressed(input', b) = is_pressed(input, b) ]_vars

\* the bytes of the written frame after its leading varint, as next_packet
\* would take them; and the data-length varint at their head
FrameTail == Drop(frameTest.wire, read_varint(frameTest.wire).used)

FrameDataLength == read_varint(FrameTail)

\* C30: in each of the three modes the leading varint of the frame
\* send_packet wrote is the exact number of bytes that follow it in the
\* frame; a packet whose length equals the threshold is sent deflated with
\* data-length = len(packet), not with the 0x00 marker.
FrameLengthExact ==
    frameTest.stage \in {"sent", "received"} =>
        /\ read_varint(frameTest.wire).ok
        /\ read_varint(frameTest.wire).val = Len(FrameTail)
        /\ frameTest.wire = write_varint(Len(FrameTail)) \o FrameTail
        /\ (frameTest.compress /\ Len(FramePacket) = frameTest.threshold)
              => /\ FrameDataLength.ok
                 /\ FrameDataLength.val = Len(FramePacket)
                 /\ FrameTail[1] # 0
                 /\ Drop(FrameTail, FrameDataLength.used) = compress_to_vec_zlib(FramePacket)
        /\ (frameTest.compress /\ Len(FramePacket) < frameTest.threshold)
              => FrameTail = << 0 >> \o FramePacket
        /\ ~frameTest.compress => FrameTail = FramePacket

FrameLengthExactWitness ==
    /\ frameTest.stage = "sent"
    /\ frameTest.compress
    /\ Len(FramePacket) = frameTest.threshold
    /\ FrameDataLength.val = frameTest.threshold
    /\ frameTest.payload # << >>

\* C31: whenever the worker is running between two calls of next_packet or
\* send_packet (at the command drain, or about to peek in login, status or
\* the steady-state loop) its stream is in non-blocking mode.
StreamModeDiscipline == [](Alive => mode = "nonblocking")

\* the packets login(protocol, port, name) and status() open their exchange with
LoginOpening(name) == << HandshakeSpec(PROTOCOL, 25565, 2), Packet("LoginStart", name) >>

StatusOpening ==
    << HandshakeSpec(PROTOCOL, 0, 1), Packet("StatusRequest", << >>),
       Packet("StatusPing", I64(0)) >>

\* the frames of the packets ps under compression flag c and threshold t
FramesOf(c, t, ps) == [i \in DOMAIN ps |-> SendPacketBytes(c, t, encode(ps[i]))]

\* no command has been handled on the connection yet
FreshConnection == \A i \in DOMAIN log : log[i].op # "command"

\* the last n frames written
LastWritten(n) == SubSeq(wire, Len(wire) - n + 1, Len(wire))

\* C32: the step that handles Login writes Handshake(next_state = Login) and
\* then LoginStart(name), the step that handles RequestStatus writes
\* Handshake(next_state = Status), StatusRequest and StatusPing(0), in that
\* order and without reading from the socket; on a fresh connection they are
\* the first frames written and are framed with compression off; and every
\* read of the wait loops finds them as the last frames written.
OpeningSequenceOrder ==
    [][ /\ (pc = "drain" /\ pc' = "login") =>
              /\ last'.kind = "Login"
              /\ wire' = wire \o FramesOf(compress, threshold, LoginOpening(last'.arg))
              /\ sock' = sock
              /\ FreshConnection =>
                     wire' = FramesOf(FALSE, 0, LoginOpening(last'.arg))
        /\ (pc = "drain" /\ pc' = "status") =>
              /\ last'.kind = "RequestStatus"
              /\ wire' = wire \o FramesOf(compress, threshold, StatusOpening)
              /\ sock' = sock
              /\ FreshConnection => wire' = FramesOf(FALSE, 0, StatusOpening)
        /\ (pc = "login" /\ sock' # sock /\ Len(sock') < Len(sock)) =>
              /\ Len(wire) >= 2
              /\ \E c \in BOOLEAN, t \in ThresholdArgs :
                    LastWritten(2) = FramesOf(c, t, LoginOpening(PlayerName))
        /\ (pc = "status" /\ sock' # sock /\ Len(sock') < Len(sock)) =>
              /\ Len(wire) >= 3
              /\ \E c \in BOOLEAN, t \in ThresholdArgs :
                    LastWritten(3) = FramesOf(c, t, StatusOpening)
      ]_vars

\* a login on a fresh connection has written its two frames and has read a
\* frame of the exchange
OpeningSequenceOrderWitness ==
    /\ wire = FramesOf(FALSE, 0, LoginOpening(PlayerName))
    /\ last.op = "login_packet"
    /\ \E i \in DOMAIN log : log[i].op = "command" /\ log[i].kind = "Login"

\* the match of login() on p as a step of its own, from any state of the worker
LoginPacketAlone(p) ==
    /\ LoginPacket(p, Step("login_packet", p.kind, p.arg))
    /\ UNCHANGED << cmdq, appAlive, appPanicked, connection, appSent, sock, peer, srv, codecVars >>

\* the packets the match of login() has an arm of its own for
LoginHandledKinds ==
    { "LoginEncryptionRequest", "LoginSetCompression", "LoginDisconnect",
      "LoginPluginRequest", "LoginSuccess" }

\* packets of the other protocol states
LoginOtherPackets ==
    { Packet("StatusPong", I64(0)), Packet("StatusResponse", StatusJson),
      Packet("PlayServerKeepAlive", KeepAliveId), Packet("PlayDisconnect", ReasonBanned),
      Packet("PlayServerDifficulty", << 1, 0 >>) }

\* a step that does more than go on waiting for the login result
MoreThanWaiting ==
    \/ sent' # sent \/ evq' # evq \/ wire' # wire
    \/ state' # state \/ close' # close \/ compress' # compress
    \/ threshold' # threshold \/ pc' # "login"

\* C33: in the wait loops of login() and status() a decoded packet the loop
\* has no arm for is ignored: no event, no frame, protocol state, compress,
\* threshold and close unchanged, and the wait goes on.  (Decoding is keyed by
\* the protocol state, so the default arm of login() is checked in every
\* reachable state on the packets of the other states.)
OtherPacketsIgnored ==
    /\ [][ (log' = Append(log, last') /\ last'.op = "status_packet"
                /\ last'.kind \in PacketKinds \ {"StatusResponse"})
           => /\ sent' = sent /\ evq' = evq /\ wire' = wire
              /\ state' = state /\ compress' = compress /\ threshold' = threshold
              /\ close' = close /\ pc' = "status" ]_vars
    /\ [][ (log' = Append(log, last') /\ last'.op = "login_packet"
                /\ last'.kind \in PacketKinds \ LoginHandledKinds)
           => /\ sent' = sent /\ evq' = evq /\ wire' = wire
              /\ state' = state /\ compress' = compress /\ threshold' = threshold
              /\ close' = close /\ pc' = "login" ]_vars
    /\ [](\A p \in LoginOtherPackets :
            /\ ENABLED LoginPacketAlone(p)
            /\ ~ENABLED (LoginPacketAlone(p) /\ MoreThanWaiting))

\* the status wait has read a StatusPong and goes on waiting
OtherPacketsIgnoredWitness ==
    /\ last = Step("status_packet", "StatusPong", I64(0))
    /\ pc = "status" /\ ~close /\ sent = << >>

\* the packet bytes (id and contents) a reader with compression flag c gets
\* from the byte string f when f is exactly one frame, << >> otherwise
FrameContent(c, f) ==
    LET sp == SplitFrame(f)
        pr == IF sp.kind = "frame" THEN ParseFrame(c, sp.buf)
              ELSE ParseResult("io", 0, << >>, FALSE, FALSE)
    IN  IF sp.kind = "frame" /\ sp.rest = << >> /\ pr.tag = "ok"
        THEN write_varint(pr.id) \o pr.contents
        ELSE << >>

\* the step handles the command SendPacket and its writes succeed
HandlesSendPacket ==
    /\ pc = "drain" /\ cmdq # << >> /\ Head(cmdq).cmd = "SendPacket"
    /\ cmdq' = Tail(cmdq) /\ pc' # "panicked"

\* C34: the step that handles SendPacket(bytes) writes exactly one frame,
\* which is the frame of bytes under the compression flag and threshold the
\* worker has at that step and which a reader with that flag decodes to
\* bytes; it sends no event and leaves protocol state, compress, threshold
\* and close unchanged.
SendPacketOneFrame ==
    [][ HandlesSendPacket =>
          /\ Len(wire') = Len(wire) + 1
          /\ SubSeq(wire', 1, Len(wire)) = wire
          /\ wire'[Len(wire')] = SendPacketBytes(compress, threshold, Head(cmdq).arg)
          /\ FrameContent(compress, wire'[Len(wire')]) = Head(cmdq).arg
          /\ (compress /\ Len(Head(cmdq).arg) >= threshold) =>
                 wire'[Len(wire')] # SendPacketBytes(FALSE, 0, Head(cmdq).arg)
          /\ sent' = sent /\ evq' = evq
          /\ state' = state /\ compress' = compress /\ threshold' = threshold
          /\ close' = close /\ pc' = "drain" ]_vars

\* a SendPacket handled after the login negotiated the threshold 2 has been
\* written deflated
SendPacketOneFrameWitness ==
    /\ last = Step("command", "SendPacket", ChatBytes)
    /\ compress /\ threshold = 2
    /\ Len(wire) = 3
    /\ wire[3] = DeflatedFrame(write_varint(3), compress_to_vec_zlib(ChatBytes))
    /\ FrameContent(TRUE, wire[3]) = ChatBytes

\* the stream starts with a complete frame whose body is too short to hold
\* the header fields next_packet reads from it with read_varint
HeaderlessFrameAtHead ==
    LET sp == SplitFrame(sock)
    IN  /\ sp.kind = "frame"
        /\ ParseFrame(compress, sp.buf).tag = "io"

\* C35: in the steady-state loop a frame too short to contain its header
\* fields is dropped like a malformed packet: the step that reads it leaves
\* the worker in the loop, with close false, and does not end the thread.
HeaderlessFrameDropped ==
    [][ (pc = "read" /\ ~close /\ peer # "reset" /\ HeaderlessFrameAtHead /\ ReadsFrame)
        => /\ pc' = "read" /\ ~close'
           /\ Len(sock') < Len(sock)
           /\ sent' = sent /\ wire' = wire ]_vars

\* the data-length field of a frame of the compressed layout
DataLength(f) == read_varint(SplitFrame(f).buf)

\* the frames the step from the current state writes
NewFrames == SubSeq(wire', Len(wire) + 1, Len(wire'))

\* a frame of the compressed layout is either the deflated form of its
\* content, with the content's non-zero length as data-length, or the
\* content behind a data-length of 0
CompressedFrameShape(f) ==
    LET c == FrameContent(TRUE, f)
    IN  /\ DataLength(f).ok
        /\ c # << >>
        /\ IF DataLength(f).val = 0
           THEN f = write_varint(Len(c) + 1) \o << 0 >> \o c
           ELSE /\ DataLength(f).val = Len(c) /\ Len(c) >= threshold
                /\ f = DeflatedFrame(write_varint(Len(c)), compress_to_vec_zlib(c))

\* C36: in every state of the worker compress implies threshold >= 1 (the
\* LoginSetCompression arm of handle_packet keeps it too, from any reachable
\* state), and every frame written with compression on has a data-length
\* that is 0 exactly when its body is not deflated.
CompressImpliesThreshold ==
    /\ [](compress => threshold >= 1)
    /\ [](\A t \in ThresholdArgs :
            ~ENABLED (HandlePacketAlone(Packet("LoginSetCompression", << t >>))
                      /\ compress' /\ threshold' < 1))
    /\ [][ compress => \A i \in DOMAIN NewFrames : CompressedFrameShape(NewFrames[i]) ]_vars

\* with threshold 8 in force a chat packet went out behind a data-length of 0
\* and a keep-alive reply went out deflated
CompressImpliesThresholdWitness ==
    /\ compress /\ threshold = 8
    /\ \E i, j \in DOMAIN wire :
          /\ wire[i] = SendPacketBytes(TRUE, 8, ChatBytes)
          /\ DataLength(wire[i]).val = 0
          /\ wire[j] = SendPacketBytes(TRUE, 8, encode(Packet("PlayClientKeepAlive", KeepAliveId)))
          /\ DataLength(wire[j]).val = 9

\* C37: once close is set it stays set, and the worker handles no further
\* command and writes no further frame.
CloseIsFinal ==
    [][ close => /\ close'
                 /\ ~(log' = Append(log, last') /\ last'.op = "command")
                 /\ wire' = wire ]_vars

\* C38: the application thread never aborts: no send on the command channel
\* panics after the worker thread has ended.
AppNeverAborts == ~appPanicked

\* C39: once the session's ConnectionState has left Connected, no step
\* changes it to a different value.
ConnectionStateAbsorbing ==
    [][ connection # Connected => connection' = connection ]_vars

\* the stream starts with a length prefix that decodes to a negative i32
NegativeLengthAtHead == SplitFrame(sock).kind = "neg"

\* C40: next_packet rejects a negative length prefix as an error (the step
\* records an I/O or decode error) and never makes a buffer size of it; a
\* frame that is read has as many body bytes as its prefix says.
NegativeLengthRejected ==
    /\ [][ (ReadsFrame /\ peer # "reset" /\ NegativeLengthAtHead)
           => last'.kind \in {"io", "decode"} ]_vars
    /\ [](\A i \in DOMAIN log : log[i].kind # "alloc")
    /\ [][ (ReadsFrame /\ peer # "reset" /\ SplitFrame(sock).kind = "frame")
           => /\ SplitFrame(sock).len >= 0
              /\ Len(SplitFrame(sock).buf) = SplitFrame(sock).len ]_vars

====
